---- MODULE Spec2Model ----
(***************************************************************************)
(* A model of the maize kernel's frame registry (kernel/src/frame.rs),     *)
(* synchronization token (kernel/src/sync.rs) and thread capability        *)
(* (kernel/src/thread.rs).                                                 *)
(*                                                                         *)
(* Machine words are represented by their two's-complement representative: *)
(* u32::MAX and u64::MAX are -1, and x - 1 at 0 is -1, so wrapping          *)
(* arithmetic and bitwise NOT are exact on the small values the model       *)
(* reaches.                                                                 *)
(***************************************************************************)
EXTENDS FiniteSets, Integers, Sequences, TLC

\* ------------------------------------------------------------------ bounds

\* Harts are numbered 0 .. NumHarts - 1 (the SBI's hart ids).
NumHarts == 2

\* The most handles (live or forgotten by into_raw) of one frame.
MaxHandles == 2

Harts == 0 .. (NumHarts - 1)

\* The frame indices of the model. Every operation of frame.rs reads and writes
\* the registry at its own index only, so one frame shows them all.
Frames == {0}

\* ------------------------------------------------------- frame registry data

FrameKind == {"Internal", "Normal", "External"}

\* The constructors that end in Arc::new_with, with the frame kind each expects.
Constructors ==
  {"NormalArc", "L2TableCap", "L1TableCap", "L0TableCap", "NormalPageCap",
   "ThreadCap", "CallCap", "InternalArc", "ExternalArc"}

ExpectedKind(ctor) ==
  CASE ctor = "InternalArc" -> "Internal"
    [] ctor = "ExternalArc" -> "External"
    [] OTHER -> "Normal"

\* u32::MAX / 2, the bound asserted by clone.
U32_MAX_HALF == 2147483647

\* Unsigned x > 1 on a u32 representative.
UGt1(x) == x > 1 \/ x < 0

\* ------------------------------------------------------- token and thread data

\* const INVALID_HART_ID: u64 = u64::MAX.
INVALID_HART_ID == -1

\* Bitwise NOT of a u64.
Not64(x) == -1 - x

\* CallStack::MAX_DEPTH.
MAX_DEPTH == 8

\* USERMODE_BASE_ADDR, the pc of the boot thread's first context.
USERMODE_BASE_ADDR == 1073741824

\* The largest value user mode leaves in a0 at a trap.
MaxWord == 1

Words == 0 .. MaxWord

\* Option<T>.
None == <<>>

Some(x) == <<x>>

\* The frames of the L2 tables that threads and calls are bound to.
Tables == {1, 2}

\* The frames of the Call records, with the Call each was constructed with.
CallCaps == {1, 2}

Calls ==
  [c \in CallCaps |->
     IF c = 1 THEN [pc |-> 8, sp |-> 16, l2_table |-> 2]
              ELSE [pc |-> 12, sp |-> 24, l2_table |-> 1]]

\* The content of a MaybeUninit<Call> slot that holds no call.
Uninit == [pc |-> 0, sp |-> 0, l2_table |-> 0]

\* Context { pc: USERMODE_BASE_ADDR, ..Default::default() }.
BootContext ==
  [ra |-> 0, pc |-> USERMODE_BASE_ADDR, sp |-> 0, gp |-> 0, tp |-> 0,
   t |-> [i \in 0 .. 6 |-> 0], s |-> [i \in 0 .. 11 |-> 0],
   a |-> [i \in 0 .. 7 |-> 0]]

\* CallStack::empty().
empty == [calls |-> [i \in 0 .. (MAX_DEPTH - 1) |-> Uninit], depth |-> 0]

\* A ThreadCap::new that makes the thread with its context taken.
ThreadCap_new_running(context, l2_table) ==
  [context |-> <<>>, l2_table |-> l2_table,
   call_stack |-> empty, exception_call |-> <<>>]

\* The Thread that ThreadCap::new(frame_number, context, l2_table) writes to
\* its frame.
ThreadCap_new(context, l2_table) ==
  [context |-> <<context>>, l2_table |-> l2_table,
   call_stack |-> empty, exception_call |-> <<>>]

\* The record of the thread operation a step completed: which, by which hart,
\* and whether it returned Some / Ok.
NoOp == [op |-> "-", hart |-> 0, ok |-> FALSE]

\* ------------------------------------------------------- page-table entries

\* A u64 is the set of the positions of its 1 bits; | is \cup and & is \cap.
\* Bits(n) is the word of the number n, Num(w) the number of the word w.
Bits(n) == {i \in 0 .. 30 : (n \div (2 ^ i)) % 2 = 1}

RECURSIVE Num(_)
Num(w) == IF w = {} THEN 0 ELSE LET i == CHOOSE j \in w : TRUE
                                IN 2 ^ i + Num(w \ {i})

\* w << k on a u64.
Shl(w, k) == {i + k : i \in {j \in w : j + k <= 63}}

\* (1 << 44) - 1.
PPN_MASK == 0 .. 43

\* pub const TABLE_LEN: usize = 0x200.
TABLE_LEN == 512

\* Idx::MAX = FRAME_COUNT - 1.
Idx_MAX == 2097151

Permissions ==
  {"ReadOnly", "ReadWrite", "ExecuteOnly", "ReadExecute", "ReadWriteExecute"}

\* A Permissions::bits whose ReadWrite is the W bit alone.
Permissions_bits_write_alone(permissions) ==
  LET READ == Shl(Bits(1), 1)
      WRITE == Shl(Bits(1), 2)
      EXECUTE == Shl(Bits(1), 3)
  IN CASE permissions = "ReadOnly" -> READ
       [] permissions = "ReadWrite" -> WRITE
       [] permissions = "ExecuteOnly" -> EXECUTE
       [] permissions = "ReadExecute" -> READ \cup EXECUTE
       [] permissions = "ReadWriteExecute" -> READ \cup WRITE \cup EXECUTE

\* Permissions::bits.
Permissions_bits(permissions) ==
  LET READ == Shl(Bits(1), 1)
      WRITE == Shl(Bits(1), 2)
      EXECUTE == Shl(Bits(1), 3)
  IN CASE permissions = "ReadOnly" -> READ
       [] permissions = "ReadWrite" -> READ \cup WRITE
       [] permissions = "ExecuteOnly" -> EXECUTE
       [] permissions = "ReadExecute" -> READ \cup EXECUTE
       [] permissions = "ReadWriteExecute" -> READ \cup WRITE \cup EXECUTE

\* An L2Entry::kernel that shifts the frame number by 28.
L2Entry_kernel_shift28(l2_frame_number, permissions) ==
  LET frame_number == Shl(Bits(l2_frame_number), 28)
      VALID == Shl(Bits(1), 0)
      USER == Shl(Bits(0), 4)
      GLOBAL == Shl(Bits(1), 5)
      ACCESSED == Shl(Bits(1), 6)
      DIRTY == Shl(Bits(1), 7)
      RSW == Shl(Bits(0), 8)
      ppn == Shl(frame_number \cap PPN_MASK, 10)
  IN VALID \cup Permissions_bits(permissions) \cup USER \cup GLOBAL \cup ACCESSED
       \cup DIRTY \cup RSW \cup ppn

\* L2Entry::kernel(l2_frame_number, permissions).
L2Entry_kernel(l2_frame_number, permissions) ==
  LET frame_number == Shl(Bits(l2_frame_number), 18)
      VALID == Shl(Bits(1), 0)
      USER == Shl(Bits(0), 4)
      GLOBAL == Shl(Bits(1), 5)
      ACCESSED == Shl(Bits(1), 6)
      DIRTY == Shl(Bits(1), 7)
      RSW == Shl(Bits(0), 8)
      ppn == Shl(frame_number \cap PPN_MASK, 10)
  IN VALID \cup Permissions_bits(permissions) \cup USER \cup GLOBAL \cup ACCESSED
       \cup DIRTY \cup RSW \cup ppn

\* L2Entry::interior(l1_table) and L1Entry::interior(l0_table), on the frame
\* number the table's into_raw returns.
Entry_interior(frame_number) ==
  LET VALID == Shl(Bits(1), 0)
      RSW == Shl(Bits(0), 8)
      ppn == Shl(Bits(frame_number) \cap PPN_MASK, 10)
  IN VALID \cup RSW \cup ppn

\* L2Entry::kernel_interior(l1_table) and L1Entry::kernel_interior(l0_table).
Entry_kernel_interior(frame_number) ==
  LET VALID == Shl(Bits(1), 0)
      GLOBAL == Shl(Bits(1), 5)
      RSW == Shl(Bits(0), 8)
      ppn == Shl(Bits(frame_number) \cap PPN_MASK, 10)
  IN VALID \cup GLOBAL \cup RSW \cup ppn

\* L2Entry::invalid, L1Entry::invalid, L0Entry::invalid.
Entry_invalid == Shl(Bits(0), 0) \cup Shl(Bits(0), 1)

\* L0Entry::leaf(l0_page, permissions).
L0Entry_leaf(frame_number, permissions) ==
  LET VALID == Shl(Bits(1), 0)
      USER == Shl(Bits(1), 4)
      GLOBAL == Shl(Bits(0), 5)
      ACCESSED == Shl(Bits(1), 6)
      DIRTY == Shl(Bits(1), 7)
      RSW == Shl(Bits(0), 8)
      ppn == Shl(Bits(frame_number) \cap PPN_MASK, 10)
  IN VALID \cup Permissions_bits(permissions) \cup USER \cup GLOBAL \cup ACCESSED
       \cup DIRTY \cup RSW \cup ppn

\* An L0Entry::kernel_leaf with the user bit of L0Entry::leaf.
L0Entry_kernel_leaf_user(frame_number, permissions) ==
  LET VALID == Shl(Bits(1), 0)
      USER == Shl(Bits(1), 4)
      GLOBAL == Shl(Bits(1), 5)
      ACCESSED == Shl(Bits(1), 6)
      DIRTY == Shl(Bits(1), 7)
      RSW == Shl(Bits(0), 8)
      ppn == Shl(Bits(frame_number) \cap PPN_MASK, 10)
  IN VALID \cup Permissions_bits(permissions) \cup USER \cup GLOBAL \cup ACCESSED
       \cup DIRTY \cup RSW \cup ppn

\* L0Entry::kernel_leaf(l0_page, permissions).
L0Entry_kernel_leaf(frame_number, permissions) ==
  LET VALID == Shl(Bits(1), 0)
      USER == Shl(Bits(0), 4)
      GLOBAL == Shl(Bits(1), 5)
      ACCESSED == Shl(Bits(1), 6)
      DIRTY == Shl(Bits(1), 7)
      RSW == Shl(Bits(0), 8)
      ppn == Shl(Bits(frame_number) \cap PPN_MASK, 10)
  IN VALID \cup Permissions_bits(permissions) \cup USER \cup GLOBAL \cup ACCESSED
       \cup DIRTY \cup RSW \cup ppn

\* An L0Entry::cap that puts the frame number right above the capability bit,
\* over the tag.
L0Entry_cap_frame_low(frame_number, tag) ==
  LET VALID == Shl(Bits(0), 0)
      CAP == Shl(Bits(1), 1)
      tag64 == Shl(Bits(tag), 2)
      frame_number64 == Shl(Bits(frame_number), 2)
  IN VALID \cup CAP \cup tag64 \cup frame_number64

\* An L0Entry::cap that marks the entry valid.
L0Entry_cap_valid(frame_number, tag) ==
  LET VALID == Shl(Bits(1), 0)
      CAP == Shl(Bits(1), 1)
      tag64 == Shl(Bits(tag), 2)
      frame_number64 == Shl(Bits(frame_number), 10)
  IN VALID \cup CAP \cup tag64 \cup frame_number64

\* L0Entry::cap(frame_number, tag).
L0Entry_cap(frame_number, tag) ==
  LET VALID == Shl(Bits(0), 0)
      CAP == Shl(Bits(1), 1)
      tag64 == Shl(Bits(tag), 2)
      frame_number64 == Shl(Bits(frame_number), 10)
  IN VALID \cup CAP \cup tag64 \cup frame_number64

\* enum Cap.
CapKinds == {"L2Table", "L1Table", "L0Table", "L0Page", "Thread", "Call"}

\* The tag Cap::l0_entry gives each kind.
Cap_tag(kind) ==
  CASE kind = "L2Table" -> 0
    [] kind = "L1Table" -> 1
    [] kind = "L0Table" -> 2
    [] kind = "L0Page" -> 5
    [] kind = "Thread" -> 6
    [] kind = "Call" -> 7

\* Cap::l0_entry on a capability of the kind whose into_frame_number is
\* frame_number.
Cap_l0_entry(kind, frame_number) == L0Entry_cap(frame_number, Cap_tag(kind))

\* boot_l2_table(), entry by entry.
boot_l2_table ==
  [index \in 0 .. (TABLE_LEN - 1) |->
     IF index = TABLE_LEN - 1 THEN L2Entry_kernel(2, "ReadWriteExecute")
     ELSE IF index >= TABLE_LEN \div 2
            THEN L2Entry_kernel(index - TABLE_LEN \div 2, "ReadWrite")
            ELSE Entry_invalid]

\* The frames of the page-table objects, by the kind of object each can hold.
L2Frames == {3}
L1Frames == {4, 5}
L0Frames == {6}
PageFrames == {7, Idx_MAX}
ThreadFrames == {8}
CallFrames == {9}
PtFrames ==
  L2Frames \cup L1Frames \cup L0Frames \cup PageFrames \cup ThreadFrames \cup CallFrames

\* The kind of object the boot code has put in a frame before the first table
\* is built; the table frames are still free.
BootObjects ==
  [f \in PtFrames |-> IF f \in PageFrames THEN "L0Page"
                      ELSE IF f \in ThreadFrames THEN "Thread"
                      ELSE IF f \in CallFrames THEN "Call" ELSE "Free"]

\* The indices the mapping operations are called with.
L2Indices == {0, 1, 255, 256, 511}
L1Indices == {0, 511}
L0Indices == {0, 511}

\* The hart SBI enters the kernel on; main runs on it alone.
BootHarts == {0}

\* usize::from_be_bytes(bytes), bytes a sequence of 8 bytes, as a u64 word.
from_be_bytes(bytes) ==
  UNION {Shl(Bits(bytes[i]), 8 * (8 - i)) : i \in 1 .. 8}

\* The bytes of a word, lowest first.
to_be_bytes_lowest_first(word) ==
  [i \in 1 .. 8 |->
     Num({b - 8 * (i - 1) : b \in {j \in word : j >= 8 * (i - 1) /\ j <= 8 * (i - 1) + 7}})]

\* u64::to_be_bytes(word): the sequence of its 8 bytes, highest first.
to_be_bytes(word) ==
  [i \in 1 .. 8 |->
     Num({b - 8 * (8 - i) : b \in {j \in word : j >= 8 * (8 - i) /\ j <= 8 * (8 - i) + 7}})]

\* core::str::from_utf8(&bytes).is_ok(), on byte strings that are ASCII or hold
\* a byte no UTF-8 text holds.
from_utf8_ok(bytes) == \A i \in 1 .. Len(bytes) : bytes[i] < 128

\* The digit of d in a lower-case hexadecimal numeral.
HexDigit(d) == IF d < 10 THEN 48 + d ELSE 87 + d

\* char::escape_debug on an ASCII character c, as a sequence of characters.
escape_char(c) ==
  CASE c = 0 -> <<92, 48>>
    [] c = 9 -> <<92, 116>>
    [] c = 10 -> <<92, 110>>
    [] c = 13 -> <<92, 114>>
    [] c \in {34, 39, 92} -> <<92, c>>
    [] c >= 32 /\ c <= 126 -> <<c>>
    [] OTHER -> <<92, 117, 123>>
                  \o (IF c >= 16 THEN <<HexDigit(c \div 16)>> ELSE <<>>)
                  \o <<HexDigit(c % 16), 125>>

\* str::escape_debug, character by character.
RECURSIVE escape_debug(_)
escape_debug(str) ==
  IF str = <<>> THEN <<>> ELSE escape_char(Head(str)) \o escape_debug(Tail(str))

\* The record user!() writes for the argument a1 of print: the escaped text,
\* or the bytes in hexadecimal when they are not UTF-8.
user_record(a1) ==
  LET bytes == to_be_bytes(a1)
  IN IF from_utf8_ok(bytes) THEN [fmt |-> "str", data |-> escape_debug(bytes)]
     ELSE [fmt |-> "hex", data |-> bytes]

\* "Hello, world!" as bytes.
CHECKIN == <<72, 101, 108, 108, 111, 44, 32, 119, 111, 114, 108, 100, 33>>

\* The chunks of CHECKIN root's main sends: chunks(size_of::<usize>()), each
\* copied over [b' '; 8].
NumChunks == (Len(CHECKIN) + 7) \div 8

RootChunk(k) ==
  [i \in 1 .. 8 |-> IF 8 * k + i <= Len(CHECKIN) THEN CHECKIN[8 * k + i] ELSE 32]

\* The address of the ecall of root's i-th abi::call: one site in the loop,
\* one after it.
RootEcallPc(i) == USERMODE_BASE_ADDR + 8 * (IF i < NumChunks THEN 1 ELSE 2)

\* root's main, entered with context, up to its next ecall; s0 stands for the
\* number of calls it has made. Entered at an ecall (a pc the kernel did not
\* move), it executes that ecall again with the registers it is given.
root_main(context) ==
  LET i == context.s[0]
  IN IF i > 0 /\ context.pc = RootEcallPc(i - 1)
       THEN context
       ELSE [context EXCEPT
               !.a[0] = IF i < NumChunks THEN 1 ELSE 0,
               !.a[1] = IF i < NumChunks THEN from_be_bytes(RootChunk(i)) ELSE Bits(0),
               !.s[0] = i + 1,
               !.pc = RootEcallPc(i)]

\* The arguments a user program passes in a1: text, and bytes that are not
\* UTF-8.
UserArgs ==
  {from_be_bytes(<<255, 0, 9, 34, 92, 27, 127, 65>>),
   from_be_bytes(<<0, 9, 34, 92, 27, 127, 65, 10>>)}

\* The addresses a user program executes ecall or faults at.
UserPcs == {USERMODE_BASE_ADDR, USERMODE_BASE_ADDR + 4}

\* The registers a user program entered with context executes ecall with.
UserCalls(context) ==
  {[context EXCEPT !.a[0] = a0, !.a[1] = a1, !.pc = pc] :
     a0 \in Words, a1 \in UserArgs, pc \in UserPcs}

\* scause values of traps that are not environment calls: illegal instruction,
\* load page fault.
FaultCauses == {2, 13}

\* MaxRecords: the number of records a user program prints.
MaxRecords == 2

\* MaxMaps: the number of entry writes a run makes.
MaxMaps == 2

VARIABLES
  FRAME_KINDS,        \* [Frames -> FrameKind]
  REF_COUNTS,         \* [Frames -> u32]
  payload,            \* [Frames -> what the frame holds]
  handles,            \* [Frames -> number of live Arc values]
  raws,               \* [Frames -> number of indices returned by into_raw, not yet from_raw'd]
  arc,                \* [Harts -> the Arc operation each hart is inside]
  claimedBy,          \* [Frames -> sequence of harts whose compare-exchange 0 -> 1 succeeded]
  builtBy,            \* [Frames -> sequence of harts that ran the payload constructor]
  destroyed,          \* [Frames -> number of payload destructor runs]
  debug_assertions,   \* the build: TRUE when debug assertions are compiled in
  panicked,           \* TRUE once a hart has panicked (handle_panic resets the system)
  TOKEN_HOLDER,       \* INVALID_HART_ID or the id of the hart that took the token
  tokens,             \* [Harts -> number of Token values the hart owns]
  kpc,                \* [Harts -> where the hart is in the kernel]
  local,              \* [Harts -> the `context` local of the hart's resume]
  thread,             \* the Thread record behind the ThreadCap
  satp,               \* [Harts -> the L2 table frame in the hart's satp, 0 for the boot table]
  BOOTSTRAPPED,       \* [Harts -> activate's hart-local flag]
  tableRefs,          \* [Tables -> REF_COUNTS of the L2 tables' frames]
  capRefs,            \* [CallCaps -> REF_COUNTS of the Call records' frames]
  last,               \* the thread operation the last step completed, if any
  csr,                \* [Harts -> the hart's scause and stval registers]
  KERNEL_L1_TABLE,    \* the global kernel-L1 slot: None or Some(frame)
  objects,            \* [PtFrames -> the kind of capability object in the frame, or "Free"]
  ptRefs,             \* [PtFrames -> REF_COUNTS of the frame]
  entries,            \* [frames of built tables -> [0 .. TABLE_LEN - 1 -> entry]]
  embedded,           \* [<<table, index>> -> the handle moved into the entry now there]
  maps,               \* number of entries written so far
  console,            \* the records user!() has written, in order
  shutdown,           \* TRUE once main has asked SBI to shut the system down
  boot_alloc,         \* None, or Some([start_frame_number, end_frame_number])
  allocated           \* the indices BootAlloc::alloc has returned, in order

arcVars ==
  <<FRAME_KINDS, REF_COUNTS, payload, handles, raws, arc, claimedBy, builtBy,
    destroyed>>

buildVars == <<debug_assertions, panicked>>

syncVars == <<TOKEN_HOLDER, tokens, kpc>>

threadVars == <<local, thread, satp, BOOTSTRAPPED, tableRefs, capRefs, last, csr>>

tableVars == <<KERNEL_L1_TABLE, objects, ptRefs, entries, embedded, maps>>

bootVars == <<console, shutdown, boot_alloc, allocated>>

vars == <<arcVars, buildVars, syncVars, threadVars, tableVars, bootVars>>

\* What a hart that is inside no Arc operation remembers of its last new_with:
\* the frame, whether the count was 0 at entry (race: the number of claims
\* of the frame made before, or -1 when the count was not 0), and the result.
ArcIdle ==
  [pc |-> "idle", idx |-> 0, ctor |-> "NormalArc", race |-> -1, res |-> "-",
   why |-> "-"]

\* The registry before any frame is marked, and a Parked thread made by
\* ThreadCap::new(idx, BootContext, table 1) beside two CallCaps; table 1 is
\* referred to by the thread and by CallCap 2, table 2 by CallCap 1, and each
\* Call record by the kernel's own handle. No hart holds the token.
Init ==
  /\ FRAME_KINDS = [f \in Frames |-> "Internal"]
  /\ REF_COUNTS = [f \in Frames |-> 0]
  /\ payload = [f \in Frames |-> "uninit"]
  /\ handles = [f \in Frames |-> 0]
  /\ raws = [f \in Frames |-> 0]
  /\ arc = [h \in Harts |-> ArcIdle]
  /\ claimedBy = [f \in Frames |-> <<>>]
  /\ builtBy = [f \in Frames |-> <<>>]
  /\ destroyed = [f \in Frames |-> 0]
  /\ debug_assertions \in BOOLEAN
  /\ panicked = FALSE
  /\ TOKEN_HOLDER \in {INVALID_HART_ID, 0}
  /\ tokens = [h \in Harts |-> IF TOKEN_HOLDER = h THEN 1 ELSE 0]
  /\ kpc = [h \in Harts |-> "main"]
  /\ local = [h \in Harts |-> None]
  /\ thread = ThreadCap_new(BootContext, 1)
  /\ satp = [h \in Harts |-> 0]
  /\ BOOTSTRAPPED = [h \in Harts |-> FALSE]
  /\ tableRefs = [t \in Tables |-> IF t = 1 THEN 3 ELSE 2]
  /\ capRefs = [c \in CallCaps |-> 2]
  /\ last = NoOp
  /\ csr = [h \in Harts |-> [scause |-> 0, stval |-> 0]]
  /\ KERNEL_L1_TABLE = None
  /\ objects = BootObjects
  /\ ptRefs = [f \in PtFrames |-> IF BootObjects[f] = "Free" THEN 0 ELSE 2]
  /\ entries = <<>>
  /\ embedded = <<>>
  /\ maps = 0
  /\ console = <<>>
  /\ shutdown = FALSE
  /\ boot_alloc = None
  /\ allocated = <<>>

\* No hart is inside an Arc operation on frame f.
Quiet(f) == \A h \in Harts : arc[h].pc = "idle" \/ arc[h].idx # f

\* mark_normal / mark_device: setup hooks, called on a frame no Arc refers to.
mark_normal(f) ==
  /\ ~panicked
  /\ REF_COUNTS[f] = 0 /\ Quiet(f)
  /\ FRAME_KINDS' = [FRAME_KINDS EXCEPT ![f] = "Normal"]
  /\ UNCHANGED <<REF_COUNTS, payload, handles, raws, arc, claimedBy, builtBy, destroyed>>
  /\ UNCHANGED <<buildVars, syncVars, threadVars, tableVars, bootVars>>

mark_device(f) ==
  /\ ~panicked
  /\ REF_COUNTS[f] = 0 /\ Quiet(f)
  /\ FRAME_KINDS' = [FRAME_KINDS EXCEPT ![f] = "External"]
  /\ UNCHANGED <<REF_COUNTS, payload, handles, raws, arc, claimedBy, builtBy, destroyed>>
  /\ UNCHANGED <<buildVars, syncVars, threadVars, tableVars, bootVars>>

\* A load followed by a store in place of the compare-exchange.
compare_exchange_blind(cur, expected, new) == <<TRUE, new>>

\* A compare-exchange that writes the new value also when it fails.
compare_exchange_clobber(cur, expected, new) ==
  IF cur = expected THEN <<TRUE, new>> ELSE <<FALSE, new>>

\* compare_exchange(expected, new) on a word holding cur: <<succeeded, new value>>.
compare_exchange(cur, expected, new) ==
  IF cur = expected THEN <<TRUE, new>> ELSE <<FALSE, cur>>

\* new_with without its kind test.
KindMatches_skipped(frame_kind, expected_frame_kind) == TRUE

\* The kind test of new_with: TRUE when construction may go on.
KindMatches(frame_kind, expected_frame_kind) == frame_kind = expected_frame_kind

\* Arc::new_with, entry: Self::frame(idx) loads the kind; a mismatch returns None.
\* ctor is the constructor that calls it (Arc::new, assume_init, or a capability
\* constructor that passes Arc::new's result on with `?`).
new_with_frame(h, f, ctor) ==
  /\ ~panicked
  /\ arc[h].pc = "idle"
  /\ LET ok == KindMatches(FRAME_KINDS[f], ExpectedKind(ctor))
         me == [pc |-> IF ok THEN "cas" ELSE "idle", idx |-> f,
                ctor |-> IF ok THEN ctor ELSE "NormalArc",
                race |-> IF ok /\ REF_COUNTS[f] = 0 THEN Len(claimedBy[f]) ELSE -1,
                res |-> IF ok THEN "-" ELSE "none",
                why |-> IF ok THEN "-" ELSE "kind"]
     IN arc' = [arc EXCEPT ![h] = me]
  /\ UNCHANGED <<FRAME_KINDS, REF_COUNTS, payload, handles, raws, claimedBy, builtBy, destroyed>>
  /\ UNCHANGED <<buildVars, syncVars, threadVars, tableVars, bootVars>>

\* Arc::new_with: ref_count.compare_exchange(0, 1, Acquire, Relaxed).ok()?
new_with_cas(h) ==
  /\ ~panicked
  /\ arc[h].pc = "cas"
  /\ LET f == arc[h].idx
         r == compare_exchange(REF_COUNTS[f], 0, 1)
     IN /\ REF_COUNTS' = [REF_COUNTS EXCEPT ![f] = r[2]]
        /\ IF r[1]
             THEN /\ arc' = [arc EXCEPT ![h].pc = "construct"]
                  /\ claimedBy' = [claimedBy EXCEPT ![f] = Append(@, h)]
             ELSE /\ arc' = [arc EXCEPT ![h].pc = "idle", ![h].ctor = "NormalArc",
                                        ![h].res = "none", ![h].why = "count"]
                  /\ UNCHANGED claimedBy
  /\ UNCHANGED <<FRAME_KINDS, payload, handles, raws, builtBy, destroyed>>
  /\ UNCHANGED <<buildVars, syncVars, threadVars, tableVars, bootVars>>

\* A construction that also marks the frame as normal memory.
new_with_construct_marks(h) ==
  /\ ~panicked
  /\ arc[h].pc = "construct"
  /\ LET f == arc[h].idx
     IN /\ payload' = [payload EXCEPT ![f] =
             IF ExpectedKind(arc[h].ctor) = "Normal" THEN "init" ELSE @]
        /\ builtBy' = [builtBy EXCEPT ![f] = Append(@, h)]
        /\ FRAME_KINDS' = [FRAME_KINDS EXCEPT ![f] = "Normal"]
  /\ arc' = [arc EXCEPT ![h].pc = "store"]
  /\ UNCHANGED <<REF_COUNTS, handles, raws, claimedBy, destroyed>>
  /\ UNCHANGED <<buildVars, syncVars, threadVars, tableVars, bootVars>>

\* Arc::new_with: f(frame). Arc::new writes the value; assume_init writes nothing.
new_with_construct(h) ==
  /\ ~panicked
  /\ arc[h].pc = "construct"
  /\ LET f == arc[h].idx
     IN /\ payload' = [payload EXCEPT ![f] =
             IF ExpectedKind(arc[h].ctor) = "Normal" THEN "init" ELSE @]
        /\ builtBy' = [builtBy EXCEPT ![f] = Append(@, h)]
  /\ arc' = [arc EXCEPT ![h].pc = "store"]
  /\ UNCHANGED <<FRAME_KINDS, REF_COUNTS, handles, raws, claimedBy, destroyed>>
  /\ UNCHANGED <<buildVars, syncVars, threadVars, tableVars, bootVars>>

\* Arc::new_with: ref_count.store(2, Relaxed); Some(Self { idx, .. }).
new_with_store(h) ==
  /\ ~panicked
  /\ arc[h].pc = "store"
  /\ LET f == arc[h].idx
     IN /\ REF_COUNTS' = [REF_COUNTS EXCEPT ![f] = 2]
        /\ handles' = [handles EXCEPT ![f] = @ + 1]
  /\ arc' = [arc EXCEPT ![h].pc = "idle", ![h].ctor = "NormalArc", ![h].res = "some"]
  /\ UNCHANGED <<FRAME_KINDS, payload, raws, claimedBy, builtBy, destroyed>>
  /\ UNCHANGED <<buildVars, syncVars, threadVars, tableVars, bootVars>>

\* The debug assertions at the head of clone and drop.
DebugChecksPass(f) ==
  debug_assertions => (FRAME_KINDS[f] = "Normal" /\ UGt1(REF_COUNTS[f]))

\* Clone for Arc: fetch_add(1, Relaxed), assert!(ref_count < u32::MAX / 2).
clone(h, f) ==
  /\ ~panicked
  /\ arc[h].pc = "idle"
  /\ handles[f] > 0
  /\ handles[f] + raws[f] < MaxHandles
  /\ IF ~DebugChecksPass(f)
       THEN /\ panicked' = TRUE
            /\ UNCHANGED <<arcVars, tableVars, bootVars, debug_assertions, syncVars, threadVars, tableVars>>
       ELSE LET old == REF_COUNTS[f]
            IN /\ REF_COUNTS' = [REF_COUNTS EXCEPT ![f] = old + 1]
               /\ IF old >= 0 /\ old < U32_MAX_HALF
                    THEN /\ handles' = [handles EXCEPT ![f] = @ + 1]
                         /\ UNCHANGED panicked
                    ELSE /\ panicked' = TRUE
                         /\ UNCHANGED handles
               /\ UNCHANGED <<FRAME_KINDS, payload, raws, arc, claimedBy, builtBy,
                              destroyed, debug_assertions, syncVars, threadVars, tableVars, bootVars>>

\* An into_raw without the forget: the handle is dropped on return.
into_raw_dropped(h, f) ==
  /\ ~panicked
  /\ arc[h].pc = "idle"
  /\ handles[f] > 0
  /\ handles' = [handles EXCEPT ![f] = @ - 1]
  /\ raws' = [raws EXCEPT ![f] = @ + 1]
  /\ REF_COUNTS' = [REF_COUNTS EXCEPT ![f] = @ - 1]
  /\ UNCHANGED <<FRAME_KINDS, payload, arc, claimedBy, builtBy, destroyed>>
  /\ UNCHANGED <<buildVars, syncVars, threadVars, tableVars, bootVars>>

\* Arc::into_raw: forget(self); the index is returned.
into_raw(h, f) ==
  /\ ~panicked
  /\ arc[h].pc = "idle"
  /\ handles[f] > 0
  /\ handles' = [handles EXCEPT ![f] = @ - 1]
  /\ raws' = [raws EXCEPT ![f] = @ + 1]
  /\ UNCHANGED <<FRAME_KINDS, REF_COUNTS, payload, arc, claimedBy, builtBy, destroyed>>
  /\ UNCHANGED <<buildVars, syncVars, threadVars, tableVars, bootVars>>

\* Arc::from_raw on an index a previous into_raw returned.
from_raw(h, f) ==
  /\ ~panicked
  /\ arc[h].pc = "idle"
  /\ raws[f] > 0
  /\ raws' = [raws EXCEPT ![f] = @ - 1]
  /\ handles' = [handles EXCEPT ![f] = @ + 1]
  /\ UNCHANGED <<FRAME_KINDS, REF_COUNTS, payload, arc, claimedBy, builtBy, destroyed>>
  /\ UNCHANGED <<buildVars, syncVars, threadVars, tableVars, bootVars>>

\* The test that sends drop into the destruction branch, on fetch_sub's result
\* (the value before the decrement).
LastUser(fetched) == fetched = 1

\* Drop for Arc, one step of hart h: the decrement, then (in the destruction
\* branch) drop_in_place, then the store of 0.
drop(h) ==
  /\ ~panicked
  /\ CASE arc[h].pc = "idle" ->
            \E f \in Frames :
              /\ handles[f] > 0
              /\ IF ~DebugChecksPass(f)
                   THEN /\ panicked' = TRUE
                        /\ UNCHANGED <<arcVars, tableVars, bootVars, debug_assertions, syncVars, threadVars, tableVars>>
                   ELSE LET old == REF_COUNTS[f]
                        IN /\ REF_COUNTS' = [REF_COUNTS EXCEPT ![f] = old - 1]
                           /\ handles' = [handles EXCEPT ![f] = @ - 1]
                           /\ arc' = [arc EXCEPT ![h] =
                                 IF LastUser(old)
                                   THEN [ArcIdle EXCEPT !.pc = "destroy", !.idx = f]
                                   ELSE ArcIdle]
                           /\ UNCHANGED <<FRAME_KINDS, payload, raws, claimedBy, builtBy,
                                          destroyed>>
                           /\ UNCHANGED <<buildVars, syncVars, threadVars, tableVars, bootVars>>
       [] arc[h].pc = "destroy" ->
            /\ payload' = [payload EXCEPT ![arc[h].idx] = "dropped"]
            /\ destroyed' = [destroyed EXCEPT ![arc[h].idx] = @ + 1]
            /\ arc' = [arc EXCEPT ![h].pc = "store0"]
            /\ UNCHANGED <<FRAME_KINDS, REF_COUNTS, handles, raws, claimedBy, builtBy>>
            /\ UNCHANGED <<buildVars, syncVars, threadVars, tableVars, bootVars>>
       [] arc[h].pc = "store0" ->
            /\ REF_COUNTS' = [REF_COUNTS EXCEPT ![arc[h].idx] = 0]
            /\ arc' = [arc EXCEPT ![h] = ArcIdle]
            /\ UNCHANGED <<FRAME_KINDS, payload, handles, raws, claimedBy, builtBy,
                           destroyed>>
            /\ UNCHANGED <<buildVars, syncVars, threadVars, tableVars, bootVars>>
       [] OTHER -> FALSE

NextArc ==
  \/ \E f \in Frames : mark_normal(f)
  \/ \E f \in Frames : mark_device(f)
  \/ \E h \in Harts, f \in Frames, c \in Constructors : new_with_frame(h, f, c)
  \/ \E h \in Harts : new_with_cas(h)
  \/ \E h \in Harts : new_with_construct(h)
  \/ \E h \in Harts : new_with_store(h)
  \/ \E h \in Harts, f \in Frames : clone(h, f)
  \/ \E h \in Harts, f \in Frames : into_raw(h, f)
  \/ \E h \in Harts, f \in Frames : from_raw(h, f)
  \/ \E h \in Harts : drop(h)

SpecArc == Init /\ [][NextArc]_vars

\* ------------------------------------------------------------ the token

\* A compare_exchange_weak that always stores and reports success.
compare_exchange_weak_blind(cur, expected, new, spurious) == <<TRUE, new>>

\* compare_exchange_weak: a compare_exchange that may also fail spuriously.
compare_exchange_weak(cur, expected, new, spurious) ==
  IF spurious THEN <<FALSE, cur>> ELSE compare_exchange(cur, expected, new)

\* The test of the acquire loop with the comparison turned round.
SeemsFree_negated(loaded) == Not64(loaded) = INVALID_HART_ID

\* The test of the acquire loop on the loaded holder: TRUE sends the hart to
\* the compare-exchange, FALSE to spin_loop.
SeemsFree(loaded) == Not64(loaded) # INVALID_HART_ID

\* A Token::acquire without its assertions.
acquire_enter_unchecked(h) ==
  /\ ~panicked
  /\ kpc[h] \in {"main", "trapped"}
  /\ kpc' = [kpc EXCEPT ![h] = "acq_load"]
  /\ last' = NoOp
  /\ UNCHANGED <<arcVars, tableVars, bootVars, buildVars, TOKEN_HOLDER, tokens>>
  /\ UNCHANGED <<local, thread, satp, BOOTSTRAPPED, tableRefs, capRefs, csr>>

\* Token::acquire, entry: the assertions on the hart id. From "trapped" it is
\* the call inside ThreadCap::resume.
acquire_enter(h) ==
  /\ ~panicked
  /\ kpc[h] \in {"main", "trapped"}
  /\ IF (debug_assertions /\ TOKEN_HOLDER = h) \/ h = INVALID_HART_ID
       THEN /\ panicked' = TRUE
            /\ UNCHANGED kpc
       ELSE /\ kpc' = [kpc EXCEPT ![h] = "acq_load"]
            /\ UNCHANGED panicked
  /\ last' = NoOp
  /\ UNCHANGED <<arcVars, tableVars, bootVars, debug_assertions, TOKEN_HOLDER, tokens>>
  /\ UNCHANGED <<local, thread, satp, BOOTSTRAPPED, tableRefs, capRefs, csr>>

\* Token::acquire, head of the loop: TOKEN_HOLDER.load(Relaxed) and the test.
acquire_load(h) ==
  /\ ~panicked
  /\ kpc[h] = "acq_load"
  /\ kpc' = [kpc EXCEPT ![h] = IF SeemsFree(TOKEN_HOLDER) THEN "acq_cas" ELSE "acq_spin"]
  /\ last' = NoOp
  /\ UNCHANGED <<arcVars, tableVars, bootVars, buildVars, TOKEN_HOLDER, tokens>>
  /\ UNCHANGED <<local, thread, satp, BOOTSTRAPPED, tableRefs, capRefs, csr>>

\* Token::acquire: compare_exchange_weak(INVALID_HART_ID, hart_id, Acquire, Relaxed);
\* on success the Token is returned, to resume when the hart is inside one.
acquire_cas(h) ==
  /\ ~panicked
  /\ kpc[h] = "acq_cas"
  /\ \E spurious \in BOOLEAN :
       LET r == compare_exchange_weak(TOKEN_HOLDER, INVALID_HART_ID, h, spurious)
       IN /\ TOKEN_HOLDER' = r[2]
          /\ IF r[1]
               THEN /\ tokens' = [tokens EXCEPT ![h] = @ + 1]
                    /\ kpc' = [kpc EXCEPT ![h] =
                          IF local[h] # None THEN "reinstall" ELSE "main"]
               ELSE /\ kpc' = [kpc EXCEPT ![h] = "acq_load"]
                    /\ UNCHANGED tokens
  /\ last' = NoOp
  /\ UNCHANGED <<arcVars, tableVars, bootVars, buildVars>>
  /\ UNCHANGED <<local, thread, satp, BOOTSTRAPPED, tableRefs, capRefs, csr>>

\* Token::acquire: spin_loop(), then the next iteration.
acquire_spin(h) ==
  /\ ~panicked
  /\ kpc[h] = "acq_spin"
  /\ kpc' = [kpc EXCEPT ![h] = "acq_load"]
  /\ last' = NoOp
  /\ UNCHANGED <<arcVars, tableVars, bootVars, buildVars, TOKEN_HOLDER, tokens>>
  /\ UNCHANGED <<local, thread, satp, BOOTSTRAPPED, tableRefs, capRefs, csr>>

\* Drop for Token on hart h: the debug assertion, then the store of
\* INVALID_HART_ID. to is where the hart goes on.
TokenDrop(h, to) ==
  IF debug_assertions /\ TOKEN_HOLDER # h
    THEN /\ panicked' = TRUE
         /\ UNCHANGED <<TOKEN_HOLDER, tokens, kpc>>
    ELSE /\ TOKEN_HOLDER' = INVALID_HART_ID
         /\ tokens' = [tokens EXCEPT ![h] = @ - 1]
         /\ kpc' = [kpc EXCEPT ![h] = to]
         /\ UNCHANGED panicked

\* Token::release / drop of a Token by the code that acquired it.
release(h) ==
  /\ ~panicked
  /\ kpc[h] = "main"
  /\ tokens[h] > 0
  /\ TokenDrop(h, "main")
  /\ last' = NoOp
  /\ UNCHANGED <<arcVars, tableVars, bootVars, debug_assertions>>
  /\ UNCHANGED <<local, thread, satp, BOOTSTRAPPED, tableRefs, capRefs, csr>>

\* ------------------------------------------------------------ the thread

\* Clone for Arc and Drop for Arc on the count of a frame that holds a table or
\* a Call record. These frames are Normal and their counts stay above 1 and
\* far below u32::MAX / 2, so the assertions of clone and drop pass.
ArcClone(refs, i) == [refs EXCEPT ![i] = @ + 1]

ArcDrop(refs, i) ==
  IF LastUser(refs[i]) THEN [refs EXCEPT ![i] = 0] ELSE [refs EXCEPT ![i] = @ - 1]

\* A push that does not look at the length of the array.
push_unchecked(cs, call) ==
  Some([calls |-> [i \in DOMAIN cs.calls \cup {cs.depth} |->
                     IF i = cs.depth THEN call ELSE cs.calls[i]],
        depth |-> cs.depth + 1])

\* CallStack::push: calls.get_mut(depth)?, write, depth += 1.
push(cs, call) ==
  IF cs.depth \in DOMAIN cs.calls
    THEN Some([calls |-> [cs.calls EXCEPT ![cs.depth] = call],
               depth |-> cs.depth + 1])
    ELSE None

\* A pop that reads the bottom slot.
pop_bottom(cs) ==
  IF cs.depth - 1 < 0
    THEN None
    ELSE LET index == cs.depth - 1
         IN Some(<<cs.calls[0],
                   [calls |-> [cs.calls EXCEPT ![index] = Uninit],
                    depth |-> index]>>)

\* CallStack::pop: depth.checked_sub(1)?, read the slot, depth = index.
\* Some(<<call, stack>>); the slot read from holds no call afterwards.
pop(cs) ==
  IF cs.depth - 1 < 0
    THEN None
    ELSE LET index == cs.depth - 1
         IN Some(<<cs.calls[index],
                   [calls |-> [cs.calls EXCEPT ![index] = Uninit],
                    depth |-> index]>>)

\* An Option::take that leaves the value in the slot.
take_copy(opt) == <<opt, opt>>

\* Option::take: <<the value returned, the slot afterwards>>.
take(opt) == <<opt, None>>

\* The thread operations are called with a Token the caller owns.
HasToken(h) == kpc[h] = "main" /\ tokens[h] > 0

\* A call that sets the pc of the target and leaves the sp of the caller.
call_result_keeps_sp(th, refs, c) ==
  LET pushed == IF th.context = None THEN None
                ELSE push(th.call_stack,
                          [pc |-> th.context[1].pc, sp |-> th.context[1].sp,
                           l2_table |-> th.l2_table])
  IN IF pushed = None
       THEN [ok |-> FALSE, thread |-> th, tableRefs |-> refs]
       ELSE [ok |-> TRUE,
             thread |-> [th EXCEPT
                !.context = Some([@[1] EXCEPT !.pc = Calls[c].pc]),
                !.call_stack = pushed[1],
                !.l2_table = Calls[c].l2_table],
             tableRefs |-> ArcClone(refs, Calls[c].l2_table)]

\* A call that does not drop the handle of the table it unbinds.
call_result_keeps_bound(th, refs, c) ==
  LET pc == Calls[c].pc
      sp == Calls[c].sp
      l2_table == Calls[c].l2_table
      refs1 == ArcClone(refs, l2_table)
  IN IF th.context = None
       THEN [ok |-> FALSE, thread |-> th, tableRefs |-> ArcDrop(refs1, l2_table)]
       ELSE LET context == th.context[1]
                refs2 == ArcClone(refs1, th.l2_table)
                pushed == push(th.call_stack,
                               [pc |-> context.pc, sp |-> context.sp,
                                l2_table |-> th.l2_table])
            IN IF pushed = None
                 THEN [ok |-> FALSE, thread |-> th,
                       tableRefs |-> ArcDrop(ArcDrop(refs2, th.l2_table), l2_table)]
                 ELSE [ok |-> TRUE,
                       thread |-> [th EXCEPT
                          !.context = Some([context EXCEPT !.pc = pc, !.sp = sp]),
                          !.call_stack = pushed[1],
                          !.l2_table = l2_table],
                       tableRefs |-> refs2]

\* ThreadCap::call on thread record th with table counts refs:
\* [ok, thread, tableRefs] afterwards.
call_result(th, refs, c) ==
  LET pc == Calls[c].pc
      sp == Calls[c].sp
      l2_table == Calls[c].l2_table
      refs1 == ArcClone(refs, l2_table)
  IN IF th.context = None
       THEN [ok |-> FALSE, thread |-> th, tableRefs |-> ArcDrop(refs1, l2_table)]
       ELSE LET context == th.context[1]
                refs2 == ArcClone(refs1, th.l2_table)
                pushed == push(th.call_stack,
                               [pc |-> context.pc, sp |-> context.sp,
                                l2_table |-> th.l2_table])
            IN IF pushed = None
                 THEN [ok |-> FALSE, thread |-> th,
                       tableRefs |-> ArcDrop(ArcDrop(refs2, th.l2_table), l2_table)]
                 ELSE [ok |-> TRUE,
                       thread |-> [th EXCEPT
                          !.context = Some([context EXCEPT !.pc = pc, !.sp = sp]),
                          !.call_stack = pushed[1],
                          !.l2_table = l2_table],
                       tableRefs |-> ArcDrop(refs2, th.l2_table)]

\* ThreadCap::call(token, call).
call(h, c) ==
  /\ ~panicked
  /\ HasToken(h)
  /\ LET r == call_result(thread, tableRefs, c)
     IN /\ thread' = r.thread
        /\ tableRefs' = r.tableRefs
        /\ last' = [op |-> "call", hart |-> h, ok |-> r.ok]
  /\ UNCHANGED <<arcVars, tableVars, bootVars, buildVars, syncVars>>
  /\ UNCHANGED <<local, satp, BOOTSTRAPPED, capRefs, csr>>

\* A ret that pops without looking at the context slot.
ret_unchecked(h) ==
  /\ ~panicked
  /\ HasToken(h)
  /\ LET popped == pop(thread.call_stack)
     IN IF popped = None
          THEN /\ last' = [op |-> "ret", hart |-> h, ok |-> FALSE]
               /\ UNCHANGED <<thread, tableRefs>>
          ELSE /\ thread' = [thread EXCEPT
                    !.context = IF @ = None THEN @
                                ELSE Some([@[1] EXCEPT !.pc = popped[1][1].pc,
                                                       !.sp = popped[1][1].sp]),
                    !.call_stack = popped[1][2],
                    !.l2_table = popped[1][1].l2_table]
               /\ tableRefs' = ArcDrop(tableRefs, thread.l2_table)
               /\ last' = [op |-> "ret", hart |-> h, ok |-> TRUE]
  /\ UNCHANGED <<arcVars, tableVars, bootVars, buildVars, syncVars>>
  /\ UNCHANGED <<local, satp, BOOTSTRAPPED, capRefs, csr>>

\* ThreadCap::ret(token).
ret(h) ==
  /\ ~panicked
  /\ HasToken(h)
  /\ LET popped == pop(thread.call_stack)
     IN IF thread.context = None \/ popped = None
          THEN /\ last' = [op |-> "ret", hart |-> h, ok |-> FALSE]
               /\ UNCHANGED <<thread, tableRefs>>
          ELSE LET context == thread.context[1]
                   popped_call == popped[1][1]
               IN /\ thread' = [thread EXCEPT
                       !.context = Some([context EXCEPT !.pc = popped_call.pc,
                                                        !.sp = popped_call.sp]),
                       !.call_stack = popped[1][2],
                       !.l2_table = popped_call.l2_table]
                  /\ tableRefs' = ArcDrop(tableRefs, thread.l2_table)
                  /\ last' = [op |-> "ret", hart |-> h, ok |-> TRUE]
  /\ UNCHANGED <<arcVars, tableVars, bootVars, buildVars, syncVars>>
  /\ UNCHANGED <<local, satp, BOOTSTRAPPED, capRefs, csr>>

\* A set_exception_call that forgets the handler it replaces.
set_exception_call_forget(h, c) ==
  /\ ~panicked
  /\ HasToken(h)
  /\ thread' = [thread EXCEPT !.exception_call = Some(c)]
  /\ capRefs' = ArcClone(capRefs, c)
  /\ last' = [op |-> "set_exception_call", hart |-> h, ok |-> TRUE]
  /\ UNCHANGED <<arcVars, tableVars, bootVars, buildVars, syncVars>>
  /\ UNCHANGED <<local, satp, BOOTSTRAPPED, tableRefs, csr>>

\* ThreadCap::set_exception_call(token, call), called with a clone of the
\* kernel's handle of CallCap c; the assignment drops the handler it replaces.
set_exception_call(h, c) ==
  /\ ~panicked
  /\ HasToken(h)
  /\ thread' = [thread EXCEPT !.exception_call = Some(c)]
  /\ capRefs' = LET cloned == ArcClone(capRefs, c)
                IN IF thread.exception_call = None
                     THEN cloned
                     ELSE ArcDrop(cloned, thread.exception_call[1])
  /\ last' = [op |-> "set_exception_call", hart |-> h, ok |-> TRUE]
  /\ UNCHANGED <<arcVars, tableVars, bootVars, buildVars, syncVars>>
  /\ UNCHANGED <<local, satp, BOOTSTRAPPED, tableRefs, csr>>

\* A call_exception that takes the handler out of its slot.
call_exception_take(h) ==
  /\ ~panicked
  /\ HasToken(h)
  /\ IF thread.exception_call = None
       THEN /\ last' = [op |-> "call_exception", hart |-> h, ok |-> FALSE]
            /\ UNCHANGED <<thread, tableRefs, capRefs>>
       ELSE LET exception_call == thread.exception_call[1]
                r == call_result(thread, tableRefs, exception_call)
            IN /\ thread' = [r.thread EXCEPT !.exception_call = None]
               /\ tableRefs' = r.tableRefs
               /\ capRefs' = ArcDrop(capRefs, exception_call)
               /\ last' = [op |-> "call_exception", hart |-> h, ok |-> r.ok]
  /\ UNCHANGED <<arcVars, tableVars, bootVars, buildVars, syncVars>>
  /\ UNCHANGED <<local, satp, BOOTSTRAPPED, csr>>

\* ThreadCap::call_exception(token): exception_call.clone()?, self.call, and
\* the drop of the clone.
call_exception(h) ==
  /\ ~panicked
  /\ HasToken(h)
  /\ IF thread.exception_call = None
       THEN /\ last' = [op |-> "call_exception", hart |-> h, ok |-> FALSE]
            /\ UNCHANGED <<thread, tableRefs, capRefs>>
       ELSE LET exception_call == thread.exception_call[1]
                r == call_result(thread, tableRefs, exception_call)
            IN /\ thread' = r.thread
               /\ tableRefs' = r.tableRefs
               /\ capRefs' = ArcDrop(ArcClone(capRefs, exception_call), exception_call)
               /\ last' = [op |-> "call_exception", hart |-> h, ok |-> r.ok]
  /\ UNCHANGED <<arcVars, tableVars, bootVars, buildVars, syncVars>>
  /\ UNCHANGED <<local, satp, BOOTSTRAPPED, csr>>

\* An activate that always takes the set_satp branch.
activate_no_reclaim(refs, bootstrapped, installed) == refs

\* L2TableCap::activate(self) on the counts: the handle goes into satp; on a
\* hart whose BOOTSTRAPPED was set, the handle swap_satp returned is dropped.
activate(refs, bootstrapped, installed) ==
  IF bootstrapped THEN ArcDrop(refs, installed) ELSE refs

\* ThreadCap::resume, up to l2_table.activate(): the take of the context
\* (Err(token) when there is none), the clone of the bound table, and activate,
\* which on a hart that has activated before drops the table satp held.
resume_take(h) ==
  /\ ~panicked
  /\ HasToken(h)
  /\ LET taken == take(thread.context)
     IN IF taken[1] = None
          THEN /\ last' = [op |-> "resume", hart |-> h, ok |-> FALSE]
               /\ UNCHANGED <<local, thread, satp, BOOTSTRAPPED, tableRefs, kpc>>
          ELSE LET l2_table == thread.l2_table
                   cloned == ArcClone(tableRefs, l2_table)
               IN /\ local' = [local EXCEPT ![h] = taken[1]]
                  /\ thread' = [thread EXCEPT !.context = taken[2]]
                  /\ tableRefs' = activate(cloned, BOOTSTRAPPED[h], satp[h])
                  /\ satp' = [satp EXCEPT ![h] = l2_table]
                  /\ BOOTSTRAPPED' = [BOOTSTRAPPED EXCEPT ![h] = TRUE]
                  /\ kpc' = [kpc EXCEPT ![h] = "release"]
                  /\ last' = [op |-> "take", hart |-> h, ok |-> TRUE]
  /\ UNCHANGED <<arcVars, tableVars, bootVars, buildVars, TOKEN_HOLDER, tokens, capRefs, csr>>

\* A resume that enters user mode with the token.
resume_release_skipped(h) ==
  /\ ~panicked
  /\ kpc[h] = "release"
  /\ kpc' = [kpc EXCEPT ![h] = "user"]
  /\ last' = NoOp
  /\ UNCHANGED <<arcVars, tableVars, bootVars, buildVars, TOKEN_HOLDER, tokens>>
  /\ UNCHANGED <<local, thread, satp, BOOTSTRAPPED, tableRefs, capRefs, csr>>

\* ThreadCap::resume: token.release(), then the registers are loaded from the
\* context and sret enters user mode.
resume_release(h) ==
  /\ ~panicked
  /\ kpc[h] = "release"
  /\ TokenDrop(h, "user")
  /\ last' = NoOp
  /\ UNCHANGED <<arcVars, tableVars, bootVars, debug_assertions>>
  /\ UNCHANGED <<local, thread, satp, BOOTSTRAPPED, tableRefs, capRefs, csr>>

\* The registers user mode traps with, having been entered with context: the
\* user program has changed a0.
UserRuns(context) == {[context EXCEPT !.a[0] = v] : v \in Words}

\* The trap entry of resume on user registers u: `csrrw a7, sscratch, sp` puts
\* the user's sp in sscratch, every register but a7 is stored to its slot, and
\* slot 31 (a7) receives sscratch.
TrapSave(u) == [u EXCEPT !.a[7] = u.sp]

\* The scause of an environment call from user mode.
ENV_CALL_FROM_U == 8

\* What the hart's scause and stval hold after the trap that ends UserRuns: an
\* environment call, for which stval is 0.
TrapCsr == [scause |-> ENV_CALL_FROM_U, stval |-> 0]

\* A trap return that reinstalls the context without the token.
user_trap_reinstall(h) ==
  /\ ~panicked
  /\ kpc[h] = "user"
  /\ \E u \in UserRuns(local[h][1]) :
       /\ thread' = [thread EXCEPT !.context = Some(TrapSave(u))]
       /\ local' = [local EXCEPT ![h] = None]
  /\ kpc' = [kpc EXCEPT ![h] = "main"]
  /\ csr' = [csr EXCEPT ![h] = TrapCsr]
  /\ last' = NoOp
  /\ UNCHANGED <<arcVars, tableVars, bootVars, buildVars, TOKEN_HOLDER, tokens>>
  /\ UNCHANGED <<satp, BOOTSTRAPPED, tableRefs, capRefs>>

\* ThreadCap::resume: user mode runs and traps (the hart sets scause and
\* stval), the trap entry saves the registers into the context local and stvec
\* is set back.
user_trap(h) ==
  /\ ~panicked
  /\ kpc[h] = "user"
  /\ \E u \in UserRuns(local[h][1]) :
       local' = [local EXCEPT ![h] = Some(TrapSave(u))]
  /\ kpc' = [kpc EXCEPT ![h] = "trapped"]
  /\ csr' = [csr EXCEPT ![h] = TrapCsr]
  /\ last' = NoOp
  /\ UNCHANGED <<arcVars, tableVars, bootVars, buildVars, TOKEN_HOLDER, tokens>>
  /\ UNCHANGED <<thread, satp, BOOTSTRAPPED, tableRefs, capRefs>>

\* ThreadCap::resume, after Token::acquire: thread.context = Some(context); Ok(token).
reinstall(h) ==
  /\ ~panicked
  /\ kpc[h] = "reinstall"
  /\ thread' = [thread EXCEPT !.context = local[h]]
  /\ local' = [local EXCEPT ![h] = None]
  /\ kpc' = [kpc EXCEPT ![h] = "main"]
  /\ last' = [op |-> "resume", hart |-> h, ok |-> TRUE]
  /\ UNCHANGED <<arcVars, tableVars, bootVars, buildVars, TOKEN_HOLDER, tokens>>
  /\ UNCHANGED <<satp, BOOTSTRAPPED, tableRefs, capRefs, csr>>

\* The CallCap the harts of SpecThread call.
ThreadCalls == {1}

NextThread ==
  \/ \E h \in Harts : acquire_enter(h)
  \/ \E h \in Harts : acquire_load(h)
  \/ \E h \in Harts : acquire_cas(h)
  \/ \E h \in Harts : acquire_spin(h)
  \/ \E h \in Harts : release(h)
  \/ \E h \in Harts, c \in ThreadCalls : call(h, c)
  \/ \E h \in Harts : ret(h)
  \/ \E h \in Harts : resume_take(h)
  \/ \E h \in Harts : resume_release(h)
  \/ \E h \in Harts : user_trap(h)
  \/ \E h \in Harts : reinstall(h)

\* Harts that acquire and drop the token and run call, ret and resume on
\* clones of one ThreadCap.
SpecThread == Init /\ [][NextThread]_vars

NextCall ==
  \/ \E h \in Harts : acquire_enter(h)
  \/ \E h \in Harts : acquire_load(h)
  \/ \E h \in Harts : acquire_cas(h)
  \/ \E h \in Harts : acquire_spin(h)
  \/ \E h \in Harts : release(h)
  \/ \E h \in Harts, c \in CallCaps : call(h, c)
  \/ \E h \in Harts : ret(h)
  \/ \E h \in Harts, c \in CallCaps : set_exception_call(h, c)
  \/ \E h \in Harts : call_exception(h)

\* Harts that acquire and drop the token and run call, ret and the exception
\* call operations on a thread that stays Parked.
SpecCall == Init /\ [][NextCall]_vars

\* ------------------------------------------------------------ the boot loop

\* ThreadCap::resume under a user program that makes a call: user mode runs
\* to an ecall, the trap entry saves the registers. The program prints at most
\* MaxRecords records.
user_ecall(h) ==
  /\ ~panicked
  /\ kpc[h] = "user"
  /\ \E u \in UserCalls(local[h][1]) :
       /\ u.a[0] = 1 => Len(console) < MaxRecords
       /\ local' = [local EXCEPT ![h] = Some(TrapSave(u))]
  /\ kpc' = [kpc EXCEPT ![h] = "trapped"]
  /\ csr' = [csr EXCEPT ![h] = TrapCsr]
  /\ last' = NoOp
  /\ UNCHANGED <<arcVars, tableVars, bootVars, buildVars, TOKEN_HOLDER, tokens>>
  /\ UNCHANGED <<thread, satp, BOOTSTRAPPED, tableRefs, capRefs>>

\* ThreadCap::resume under a user program that faults: the hart sets scause to
\* the cause and stval to its value.
user_fault(h) ==
  /\ ~panicked
  /\ kpc[h] = "user"
  /\ \E pc \in UserPcs :
       local' = [local EXCEPT ![h] = Some(TrapSave([local[h][1] EXCEPT !.pc = pc]))]
  /\ kpc' = [kpc EXCEPT ![h] = "trapped"]
  /\ \E scause \in FaultCauses, stval \in Words :
       csr' = [csr EXCEPT ![h] = [scause |-> scause, stval |-> stval]]
  /\ last' = NoOp
  /\ UNCHANGED <<arcVars, tableVars, bootVars, buildVars, TOKEN_HOLDER, tokens>>
  /\ UNCHANGED <<thread, satp, BOOTSTRAPPED, tableRefs, capRefs>>

\* ThreadCap::resume under root's main: the program runs to its next ecall.
root_ecall(h) ==
  /\ ~panicked
  /\ kpc[h] = "user"
  /\ local[h][1].s[0] <= NumChunks
       \/ local[h][1].pc = RootEcallPc(local[h][1].s[0] - 1)
  /\ local' = [local EXCEPT ![h] = Some(TrapSave(root_main(local[h][1])))]
  /\ kpc' = [kpc EXCEPT ![h] = "trapped"]
  /\ csr' = [csr EXCEPT ![h] = TrapCsr]
  /\ last' = NoOp
  /\ UNCHANGED <<arcVars, tableVars, bootVars, buildVars, TOKEN_HOLDER, tokens>>
  /\ UNCHANGED <<thread, satp, BOOTSTRAPPED, tableRefs, capRefs>>

\* ThreadCap::resume called from main's loop, after Token::acquire:
\* thread.context = Some(context); Ok(token), and main goes on to its match.
main_reinstall(h) ==
  /\ ~panicked
  /\ kpc[h] = "reinstall"
  /\ thread' = [thread EXCEPT !.context = local[h]]
  /\ local' = [local EXCEPT ![h] = None]
  /\ kpc' = [kpc EXCEPT ![h] = "dispatch"]
  /\ last' = [op |-> "resume", hart |-> h, ok |-> TRUE]
  /\ UNCHANGED <<arcVars, tableVars, bootVars, buildVars, TOKEN_HOLDER, tokens>>
  /\ UNCHANGED <<satp, BOOTSTRAPPED, tableRefs, capRefs, csr>>

\* A dispatch that takes every trap for an environment call.
is_env_call_always(scause) == TRUE

\* The arm of `match scause`: TRUE for 0x8.
is_env_call(scause) == scause = ENV_CALL_FROM_U

\* A dispatch that leaves the pc at the ecall.
advance_pc_not(context) == context

\* context.pc += 0x4.
advance_pc(context) == [context EXCEPT !.pc = @ + 4]

\* main's loop body after thread.resume(token).unwrap() returned on hart h:
\* the match on scause (the cause of the trap, which main takes from resume's
\* value) and on a0. The shutdown call ends in the system off, in the panic of
\* unreachable!() or in the panic of unwrap().
dispatch(h) ==
  /\ ~panicked
  /\ kpc[h] = "dispatch" /\ tokens[h] > 0
  /\ last' = [op |-> "dispatch", hart |-> h, ok |-> TRUE]
  /\ IF ~is_env_call(csr[h].scause) \/ thread.context = None
       THEN /\ panicked' = TRUE
            /\ UNCHANGED <<thread, kpc, console, shutdown>>
       ELSE LET context == thread.context[1]
            IN IF context.a[0] = 0
                 THEN /\ shutdown' = TRUE
                      /\ \/ kpc' = [kpc EXCEPT ![h] = "off"] /\ UNCHANGED panicked
                         \/ panicked' = TRUE /\ UNCHANGED kpc
                      /\ UNCHANGED <<thread, console>>
                 ELSE /\ console' = IF context.a[0] = 1
                                      THEN Append(console, user_record(context.a[1]))
                                      ELSE console
                      /\ thread' = [thread EXCEPT !.context = Some(advance_pc(context))]
                      /\ kpc' = [kpc EXCEPT ![h] = "main"]
                      /\ UNCHANGED <<shutdown, panicked>>
  /\ UNCHANGED <<arcVars, tableVars, debug_assertions, TOKEN_HOLDER, tokens>>
  /\ UNCHANGED <<local, satp, BOOTSTRAPPED, tableRefs, capRefs, csr>>
  /\ UNCHANGED <<boot_alloc, allocated>>

\* main's loop on the boot hart under user programs that call and fault,
\* beside harts that take and drop the token.
NextBoot ==
  \/ \E h \in BootHarts :
       \/ (kpc[h] = "trapped" \/ tokens[h] = 0) /\ acquire_enter(h)
       \/ resume_take(h)
       \/ resume_release(h)
       \/ user_ecall(h)
       \/ user_fault(h)
       \/ main_reinstall(h)
       \/ dispatch(h)
  \/ \E h \in Harts \ BootHarts : tokens[h] = 0 /\ acquire_enter(h)
  \/ \E h \in Harts : acquire_load(h)
  \/ \E h \in Harts : acquire_cas(h)
  \/ \E h \in Harts : acquire_spin(h)
  \/ \E h \in Harts \ BootHarts : release(h)

SpecBoot == Init /\ [][NextBoot]_vars

\* main's loop on the boot hart under root's main, beside harts that take and
\* drop the token.
NextRoot ==
  \/ \E h \in BootHarts :
       \/ (kpc[h] = "trapped" \/ tokens[h] = 0) /\ acquire_enter(h)
       \/ resume_take(h)
       \/ resume_release(h)
       \/ root_ecall(h)
       \/ main_reinstall(h)
       \/ dispatch(h)
  \/ \E h \in Harts \ BootHarts : tokens[h] = 0 /\ acquire_enter(h)
  \/ \E h \in Harts : acquire_load(h)
  \/ \E h \in Harts : acquire_cas(h)
  \/ \E h \in Harts : acquire_spin(h)
  \/ \E h \in Harts \ BootHarts : release(h)

SpecRoot == Init /\ [][NextRoot]_vars

\* A hart inside Token::acquire keeps executing the loop, and a
\* compare_exchange_weak tried again and again on a free holder word does
\* not fail spuriously every time.
FairAcquire ==
  \A h \in Harts :
    /\ WF_vars(acquire_load(h))
    /\ WF_vars(acquire_spin(h))
    /\ WF_vars(acquire_cas(h))
    /\ SF_vars(acquire_cas(h) /\ tokens'[h] > tokens[h])

SpecRootFair == Init /\ [][NextRoot]_vars /\ FairAcquire

\* The same loop beside harts that also install exception handlers on the
\* thread, while it is parked and while the boot hart runs it.
NextHandler ==
  \/ NextRoot
  \/ \E h \in Harts, c \in CallCaps : set_exception_call(h, c)

SpecHandler == Init /\ [][NextHandler]_vars

\* main's loop on the thread as ThreadCap::new made it, beside harts that
\* try ret and call_exception on it.
NextNew ==
  \/ NextBoot
  \/ \E h \in Harts : ret(h)
  \/ \E h \in Harts : call_exception(h)

SpecNew == Init /\ [][NextNew]_vars

\* ------------------------------------------------------------ the page tables

\* [Entry; TABLE_LEN] of invalid entries.
InvalidTable == [index \in 0 .. (TABLE_LEN - 1) |-> Entry_invalid]

\* f @@ (x :> v) for the two ghost maps below.
Put(f, x, v) == [y \in DOMAIN f \cup {x} |-> IF y = x THEN v ELSE f[y]]

\* Arc::new(frame_number, payload) in one step: the compare-exchange 0 -> 1 of
\* the frame's count decides; on success the count is stored as 2.
ArcNewOk(f) == compare_exchange(ptRefs[f], 0, 1)[1]

\* set_kernel_l1_table(kernel_l1_table, token), called with a clone of the
\* caller's handle: the assignment drops the handle the slot held.
set_kernel_l1_table(h, l1) ==
  /\ ~panicked /\ HasToken(h)
  /\ objects[l1] = "L1Table"
  /\ KERNEL_L1_TABLE' = Some(l1)
  /\ ptRefs' = LET cloned == ArcClone(ptRefs, l1)
               IN IF KERNEL_L1_TABLE = None THEN cloned
                  ELSE ArcDrop(cloned, KERNEL_L1_TABLE[1])
  /\ UNCHANGED <<objects, entries, embedded, maps>>
  /\ UNCHANGED <<arcVars, buildVars, syncVars, threadVars, bootVars>>

\* L1TableCap::new(frame_number): a table of invalid entries, or None when the
\* frame is taken.
L1TableCap_new(h, f) ==
  /\ ~panicked /\ HasToken(h)
  /\ IF ArcNewOk(f)
       THEN /\ objects' = [objects EXCEPT ![f] = "L1Table"]
            /\ ptRefs' = [ptRefs EXCEPT ![f] = 2]
            /\ entries' = Put(entries, f, InvalidTable)
       ELSE UNCHANGED <<objects, ptRefs, entries>>
  /\ UNCHANGED <<KERNEL_L1_TABLE, embedded, maps>>
  /\ UNCHANGED <<arcVars, buildVars, syncVars, threadVars, bootVars>>

\* L0TableCap::new(frame_number), likewise.
L0TableCap_new(h, f) ==
  /\ ~panicked /\ HasToken(h)
  /\ IF ArcNewOk(f)
       THEN /\ objects' = [objects EXCEPT ![f] = "L0Table"]
            /\ ptRefs' = [ptRefs EXCEPT ![f] = 2]
            /\ entries' = Put(entries, f, InvalidTable)
       ELSE UNCHANGED <<objects, ptRefs, entries>>
  /\ UNCHANGED <<KERNEL_L1_TABLE, embedded, maps>>
  /\ UNCHANGED <<arcVars, buildVars, syncVars, threadVars, bootVars>>

\* An L2TableCap::new that leaves the boot table's entry 511 in place.
L2TableCap_new_entries_boot(kernel_l1_table) == boot_l2_table

\* The entries L2TableCap::new builds around the kernel L1 table it cloned.
L2TableCap_new_entries(kernel_l1_table) ==
  [boot_l2_table EXCEPT ![TABLE_LEN - 1] = Entry_kernel_interior(kernel_l1_table)]

\* L2TableCap::new(frame_number, token): the unwrap panics on an empty slot;
\* the clone of the kernel L1 table is moved into entry 511 before Arc::new
\* runs, so it stays counted when Arc::new returns None.
L2TableCap_new(h, f) ==
  /\ ~panicked /\ HasToken(h)
  /\ maps < MaxMaps
  /\ IF KERNEL_L1_TABLE = None
       THEN /\ panicked' = TRUE
            /\ UNCHANGED <<debug_assertions, objects, ptRefs, entries, embedded, maps>>
       ELSE LET kernel_l1_table == KERNEL_L1_TABLE[1]
                cloned == ArcClone(ptRefs, kernel_l1_table)
            IN /\ maps' = maps + 1
               /\ IF ArcNewOk(f)
                    THEN /\ objects' = [objects EXCEPT ![f] = "L2Table"]
                         /\ ptRefs' = [cloned EXCEPT ![f] = 2]
                         /\ entries' = Put(entries, f, L2TableCap_new_entries(kernel_l1_table))
                         /\ embedded' = Put(embedded, <<f, TABLE_LEN - 1>>,
                                            [how |-> "kernel_interior",
                                             kind |-> "L1Table",
                                             frame |-> kernel_l1_table,
                                             permissions |-> "-"])
                    ELSE /\ ptRefs' = cloned
                         /\ UNCHANGED <<objects, entries, embedded>>
               /\ UNCHANGED buildVars
  /\ UNCHANGED KERNEL_L1_TABLE
  /\ UNCHANGED <<arcVars, syncVars, threadVars, bootVars>>

\* entries[index] = entry in table t, the entry made from a clone of the
\* caller's handle on frame: the assignment runs no destructor, the entry it
\* replaces is forgotten.
WriteEntry(t, index, entry, how, kind, frame, permissions) ==
  /\ entries' = [entries EXCEPT ![t][index] = entry]
  /\ ptRefs' = ArcClone(ptRefs, frame)
  /\ embedded' = Put(embedded, <<t, index>>,
                     [how |-> how, kind |-> kind, frame |-> frame,
                      permissions |-> permissions])
  /\ maps' = maps + 1
  /\ UNCHANGED <<KERNEL_L1_TABLE, objects>>

\* The index test of map_l1_table without its upper bound.
map_l1_table_index_ok_no_upper(index) == index > 0

\* The two assertions of map_l1_table.
map_l1_table_index_ok(index) == index > 0 /\ index < TABLE_LEN \div 2

\* L2TableCap::map_l1_table(token, index, l1_table).
map_l1_table(h, l2, index, l1) ==
  /\ ~panicked /\ HasToken(h)
  /\ objects[l2] = "L2Table" /\ objects[l1] = "L1Table"
  /\ IF map_l1_table_index_ok(index)
       THEN /\ maps < MaxMaps
            /\ WriteEntry(l2, index, Entry_interior(l1), "interior", "L1Table", l1, "-")
            /\ UNCHANGED buildVars
       ELSE /\ panicked' = TRUE
            /\ UNCHANGED <<debug_assertions, KERNEL_L1_TABLE, objects, ptRefs, entries,
                           embedded, maps>>
  /\ UNCHANGED <<arcVars, syncVars, threadVars, bootVars>>

\* L1TableCap::map_l0_table(token, index, l0_table).
map_l0_table(h, l1, index, l0) ==
  /\ ~panicked /\ HasToken(h)
  /\ maps < MaxMaps
  /\ objects[l1] = "L1Table" /\ objects[l0] = "L0Table"
  /\ WriteEntry(l1, index, Entry_interior(l0), "interior", "L0Table", l0, "-")
  /\ UNCHANGED <<arcVars, buildVars, syncVars, threadVars, bootVars>>

\* L1TableCap::map_l0_kernel_table(token, index, l0_table).
map_l0_kernel_table(h, l1, index, l0) ==
  /\ ~panicked /\ HasToken(h)
  /\ maps < MaxMaps
  /\ objects[l1] = "L1Table" /\ objects[l0] = "L0Table"
  /\ WriteEntry(l1, index, Entry_kernel_interior(l0), "kernel_interior", "L0Table", l0, "-")
  /\ UNCHANGED <<arcVars, buildVars, syncVars, threadVars, bootVars>>

\* L0TableCap::map_l0_page(token, index, l0_page, permissions).
map_l0_page(h, l0, index, page, permissions) ==
  /\ ~panicked /\ HasToken(h)
  /\ maps < MaxMaps
  /\ objects[l0] = "L0Table" /\ objects[page] = "L0Page"
  /\ WriteEntry(l0, index, L0Entry_leaf(page, permissions), "leaf", "L0Page", page,
                permissions)
  /\ UNCHANGED <<arcVars, buildVars, syncVars, threadVars, bootVars>>

\* L0TableCap::map_l0_kernel_page(token, index, l0_page, permissions).
map_l0_kernel_page(h, l0, index, page, permissions) ==
  /\ ~panicked /\ HasToken(h)
  /\ maps < MaxMaps
  /\ objects[l0] = "L0Table" /\ objects[page] = "L0Page"
  /\ WriteEntry(l0, index, L0Entry_kernel_leaf(page, permissions), "kernel_leaf",
                "L0Page", page, permissions)
  /\ UNCHANGED <<arcVars, buildVars, syncVars, threadVars, bootVars>>

\* L0TableCap::give_capability(token, index, cap), cap of the given kind on
\* frame.
give_capability(h, l0, index, kind, frame) ==
  /\ ~panicked /\ HasToken(h)
  /\ maps < MaxMaps
  /\ objects[l0] = "L0Table" /\ objects[frame] = kind
  /\ WriteEntry(l0, index, Cap_l0_entry(kind, frame), "cap", kind, frame, "-")
  /\ UNCHANGED <<arcVars, buildVars, syncVars, threadVars, bootVars>>

\* The table operations on the L2 and L1 tables and the capability entries.
NextTable ==
  \E h \in Harts :
    \/ \E f \in L1Frames : L1TableCap_new(h, f)
    \/ \E f \in L0Frames : L0TableCap_new(h, f)
    \/ \E l1 \in L1Frames : set_kernel_l1_table(h, l1)
    \/ \E f \in L2Frames : L2TableCap_new(h, f)
    \/ \E l2 \in L2Frames, index \in L2Indices, l1 \in L1Frames :
         map_l1_table(h, l2, index, l1)
    \/ \E l1 \in L1Frames, index \in L1Indices, l0 \in L0Frames :
         map_l0_table(h, l1, index, l0)
    \/ \E l1 \in L1Frames, index \in L1Indices, l0 \in L0Frames :
         map_l0_kernel_table(h, l1, index, l0)
    \/ \E l0 \in L0Frames, index \in L0Indices, kind \in CapKinds, frame \in PtFrames :
         give_capability(h, l0, index, kind, frame)

SpecTable == Init /\ [][NextTable]_vars

\* The operations on one L0 table: leaves and capability entries.
NextL0 ==
  \E h \in Harts :
    \/ \E f \in L0Frames : L0TableCap_new(h, f)
    \/ \E l0 \in L0Frames, index \in L0Indices, page \in PageFrames,
          permissions \in Permissions :
         map_l0_page(h, l0, index, page, permissions)
    \/ \E l0 \in L0Frames, index \in L0Indices, page \in PageFrames,
          permissions \in Permissions :
         map_l0_kernel_page(h, l0, index, page, permissions)
    \/ \E l0 \in L0Frames, index \in L0Indices, kind \in CapKinds, frame \in PtFrames :
         give_capability(h, l0, index, kind, frame)

SpecL0 == Init /\ [][NextL0]_vars

\* ------------------------------------------------------------ the boot allocator

\* The frame numbers BootAlloc::new is given.
FrameNumbers == {3, 4, 5, 6, 7, 8, Idx_MAX + 1, Idx_MAX + 2}

\* What the closures given to alloc construct: a table or a page.
AllocKinds == {"L1Table", "L0Table", "L0Page"}

\* Idx::from_raw(value).
Idx_from_raw(value) == IF value > Idx_MAX THEN None ELSE Some(value)

\* BootAlloc::len.
BootAlloc_len(self) == self.end_frame_number - self.start_frame_number

\* The frame number alloc tries, taken one too high.
frame_number_end(self) == self.end_frame_number

\* let frame_number = self.end_frame_number - 1 in BootAlloc::alloc.
frame_number(self) == self.end_frame_number - 1

\* BootAlloc::new(start_frame_number, end_frame_number).
BootAlloc_new(start_frame_number, end_frame_number) ==
  /\ ~panicked
  /\ boot_alloc = None
  /\ IF start_frame_number <= end_frame_number
       THEN /\ boot_alloc' = Some([start_frame_number |-> start_frame_number,
                                   end_frame_number |-> end_frame_number])
            /\ UNCHANGED panicked
       ELSE /\ panicked' = TRUE
            /\ UNCHANGED boot_alloc
  /\ UNCHANGED <<debug_assertions, console, shutdown, allocated>>
  /\ UNCHANGED <<arcVars, syncVars, threadVars, tableVars>>

\* BootAlloc::alloc(f), f one of L1TableCap::new, L0TableCap::new and
\* |idx| L0PageCap::new(idx, bytes): the assertion on len, Idx::from_raw, the
\* closure, and only then the store to end_frame_number.
alloc(kind) ==
  /\ ~panicked
  /\ boot_alloc # None
  /\ LET self == boot_alloc[1]
         idx == Idx_from_raw(frame_number(self))
     IN IF BootAlloc_len(self) = 0 \/ idx = None \/ ~ArcNewOk(idx[1])
          THEN /\ panicked' = TRUE
               /\ UNCHANGED <<boot_alloc, allocated, objects, ptRefs, entries>>
          ELSE /\ objects' = [objects EXCEPT ![idx[1]] = kind]
               /\ ptRefs' = [ptRefs EXCEPT ![idx[1]] = 2]
               /\ entries' = IF kind = "L0Page" THEN entries
                                ELSE Put(entries, idx[1], InvalidTable)
               /\ boot_alloc' = Some([self EXCEPT !.end_frame_number = frame_number(self)])
               /\ allocated' = Append(allocated, idx[1])
               /\ UNCHANGED panicked
  /\ UNCHANGED <<debug_assertions, console, shutdown, KERNEL_L1_TABLE, embedded, maps>>
  /\ UNCHANGED <<arcVars, syncVars, threadVars>>

NextAlloc ==
  \/ \E start_frame_number \in FrameNumbers, end_frame_number \in FrameNumbers :
       BootAlloc_new(start_frame_number, end_frame_number)
  \/ \E kind \in AllocKinds : alloc(kind)

SpecAlloc == Init /\ [][NextAlloc]_vars

\* ------------------------------------------------------ frame registry claims

\* Harts h and g have both returned from new_with calls on the same frame that
\* both passed the kind test while the count was 0 and no claim lay between
\* their entries: the two calls ran concurrently on an unused frame.
Raced(h, g) ==
  /\ h # g
  /\ arc[h].pc = "idle" /\ arc[g].pc = "idle"
  /\ arc[h].res \in {"some", "none"} /\ arc[g].res \in {"some", "none"}
  /\ arc[h].idx = arc[g].idx
  /\ arc[h].race >= 0 /\ arc[h].race = arc[g].race

IsPrefix(s, t) == Len(s) <= Len(t) /\ \A i \in 1 .. Len(s) : s[i] = t[i]

\* C1: of two concurrent Arc::new calls on an unused frame of the matching kind
\* exactly one returns a handle and the other none (both return none only when a
\* third hart claimed the frame in their race), and the payload constructor of a
\* frame is run by the hart whose compare-exchange claimed it, once per claim.
C1_OneWinner ==
  /\ \A h, g \in Harts :
       Raced(h, g) =>
         LET f == arc[h].idx
             e == arc[h].race
         IN \/ (arc[h].res = "some") # (arc[g].res = "some")
            \/ /\ arc[h].res = "none" /\ arc[g].res = "none"
               /\ Len(claimedBy[f]) > e
               /\ claimedBy[f][e + 1] \notin {h, g}
  /\ \A f \in Frames : IsPrefix(builtBy[f], claimedBy[f])

C1_Witness ==
  \E h, g \in Harts :
    /\ Raced(h, g)
    /\ arc[h].res = "some" /\ arc[g].res = "none" /\ arc[g].why = "count"
    /\ builtBy[arc[h].idx] = <<h>>

\* C2: once the last handle of a frame has been dropped (no live handle, no
\* forgotten index, no hart inside an operation on it), the frame's count is
\* 0 and the payload destructor has run once for each construction.
C2_LastDropFrees ==
  \A f \in Frames :
    (Quiet(f) /\ handles[f] + raws[f] = 0 /\ Len(claimedBy[f]) > 0)
      => (REF_COUNTS[f] = 0 /\ destroyed[f] = Len(builtBy[f]))

\* C3: new_with goes on to the compare-exchange, and returns a handle, only
\* on a frame whose registered kind is the constructor's; a return of none for
\* the kind changes neither the counts nor the payloads.
C3_KindGate ==
  [][\A h \in Harts :
       /\ (arc[h].pc = "idle" /\ arc'[h].pc = "cas")
            => FRAME_KINDS[arc'[h].idx] = ExpectedKind(arc'[h].ctor)
       /\ (arc[h].pc = "store" /\ arc'[h].res = "some")
            => FRAME_KINDS[arc[h].idx] = ExpectedKind(arc[h].ctor)
       /\ (arc'[h] # arc[h] /\ arc[h].pc = "idle" /\ arc'[h].why = "kind")
            => /\ arc'[h].res = "none" /\ arc'[h].pc = "idle"
               /\ REF_COUNTS' = REF_COUNTS /\ payload' = payload
               /\ handles' = handles]_vars

C3_Witness ==
  \E h, g \in Harts :
    /\ arc[h].why = "kind" /\ arc[h].res = "none"
    /\ arc[g].res = "some" /\ FRAME_KINDS[arc[g].idx] = "External"

\* C4: a compare-exchange of new_with that finds the count not 0 returns none
\* and changes neither the count nor the payload, whichever constructor called.
C4_BusyFrame ==
  [][\A h \in Harts :
       (arc[h].pc = "cas" /\ REF_COUNTS[arc[h].idx] # 0 /\ arc'[h] # arc[h])
         => /\ arc'[h].pc = "idle" /\ arc'[h].res = "none" /\ arc'[h].why = "count"
            /\ REF_COUNTS' = REF_COUNTS /\ payload' = payload
            /\ handles' = handles]_vars

C4_Witness ==
  \E h, g \in Harts :
    /\ arc[h].why = "count" /\ arc[h].res = "none"
    /\ arc[g].pc = "cas" /\ arc[g].ctor = "ThreadCap"
    /\ REF_COUNTS[arc[g].idx] = 1 /\ handles[arc[g].idx] = 0

\* ---------------------------------------------------- token and thread claims

\* C5: at most one Token exists, and TOKEN_HOLDER is INVALID_HART_ID exactly
\* when no hart owns a Token and otherwise the id of the hart that owns it.
C5_OneToken ==
  /\ \A h \in Harts : tokens[h] \in {0, 1}
  /\ \A h, g \in Harts : (tokens[h] > 0 /\ tokens[g] > 0) => h = g
  /\ (TOKEN_HOLDER = INVALID_HART_ID) <=> (\A h \in Harts : tokens[h] = 0)
  /\ \A h \in Harts : tokens[h] > 0 => TOKEN_HOLDER = h

C5_Witness ==
  \E h, g \in Harts :
    /\ h # g
    /\ tokens[h] = 1 /\ TOKEN_HOLDER = h
    /\ kpc[g] = "acq_cas"

\* C6: every step that reads or writes the Thread record is taken by a hart
\* that is the token holder and owns the only Token at that step, and a hart
\* inside resume takes such a step only before its release (the take) and
\* after its re-acquire (the reinstall).
C6_HolderAccess ==
  [][/\ last'.op # "-" =>
          LET h == last'.hart
          IN /\ TOKEN_HOLDER = h /\ tokens[h] = 1
             /\ \A g \in Harts \ {h} : tokens[g] = 0
             /\ kpc[h] \in {"main", "reinstall"}
             /\ TOKEN_HOLDER' = h /\ tokens'[h] = 1
     /\ (thread' # thread \/ tableRefs' # tableRefs) => last'.op # "-"]_vars

C6_Witness ==
  /\ last.op = "resume" /\ last.ok
  /\ \E g \in Harts : g # last.hart /\ kpc[g] \in {"acq_cas", "acq_spin"}

\* C7: a hart inside resume holds the token when it has taken the context and
\* activated the bound table, holds none from its release until its
\* re-acquire (in user mode, at the trap, in the acquire loop), holds it again
\* before the reinstall, and when resume has returned Ok the hart holds the
\* token and the thread is Parked.
C7_ResumeHandsOver ==
  \A h \in Harts :
    /\ kpc[h] = "release" =>
         /\ tokens[h] = 1 /\ TOKEN_HOLDER = h
         /\ thread.context = None /\ local[h] # None
         /\ satp[h] = thread.l2_table
    /\ (kpc[h] \in {"user", "trapped"}
          \/ (kpc[h] \in {"acq_load", "acq_cas", "acq_spin"} /\ local[h] # None)) =>
         /\ tokens[h] = 0 /\ TOKEN_HOLDER # h
         /\ thread.context = None
    /\ kpc[h] = "reinstall" =>
         /\ tokens[h] = 1 /\ TOKEN_HOLDER = h
         /\ thread.context = None
    /\ (last.op = "resume" /\ last.ok /\ last.hart = h) =>
         /\ tokens[h] = 1 /\ TOKEN_HOLDER = h /\ kpc[h] = "main"
         /\ thread.context # None

C7_Witness ==
  \E h, g \in Harts :
    /\ h # g
    /\ kpc[h] = "user"
    /\ tokens[g] = 1 /\ last = [op |-> "call", hart |-> g, ok |-> FALSE]

\* C8: at most one hart is between the take of the context and its reinstall,
\* and a resume that finds the thread Running returns Err(token): the caller
\* still owns the token, which was not released, and the thread record, the
\* satp registers and the reference counts are as before.
C8_OneResumer ==
  /\ [](\A h, g \in Harts : (local[h] # None /\ local[g] # None) => h = g)
  /\ [][(last'.op = "resume" /\ ~last'.ok) =>
          LET h == last'.hart
          IN /\ thread.context = None
             /\ thread' = thread /\ local' = local
             /\ satp' = satp /\ tableRefs' = tableRefs
             /\ TOKEN_HOLDER = h /\ TOKEN_HOLDER' = h
             /\ tokens' = tokens /\ tokens[h] = 1
             /\ kpc' = kpc]_vars

C8_Witness ==
  \E h, g \in Harts :
    /\ h # g
    /\ last = [op |-> "resume", hart |-> h, ok |-> FALSE]
    /\ kpc[g] = "user" /\ local[g] # None /\ local[h] = None

\* C9: while the context slot is empty, call, ret and resume fail and no step
\* changes the call stack, the bound l2_table or exception_call; the slot is
\* filled again only by the reinstall of the resuming hart, with the context
\* its trap entry saved.
C9_RunningIsClosed ==
  [][thread.context = None =>
       /\ last'.op \in {"call", "ret", "resume"} /\ kpc[last'.hart] = "main"
            => (~last'.ok /\ thread' = thread)
       /\ last'.op # "take"
       /\ thread'.call_stack = thread.call_stack
       /\ thread'.l2_table = thread.l2_table
       /\ thread'.exception_call = thread.exception_call
       /\ thread'.context # None =>
            \E h \in Harts :
              /\ kpc[h] = "reinstall" /\ kpc'[h] = "main"
              /\ local[h] # None /\ thread'.context = local[h]
              /\ last' = [op |-> "resume", hart |-> h, ok |-> TRUE]]_vars

C9_Witness ==
  /\ thread.context = None
  /\ thread.call_stack.depth > 0
  /\ last.op = "ret" /\ ~last.ok

\* C10: on a Parked thread a call succeeds exactly when the call-stack depth
\* is below 8 and a ret exactly when it is above 0; a call at depth 8 and a ret
\* at depth 0 return none and leave the context (pc and sp included), the
\* bound l2_table and the call stack as they were.
C10_DepthLimits ==
  [][thread.context # None =>
       /\ last'.op = "call" =>
            /\ last'.ok <=> thread.call_stack.depth < 8
            /\ last'.ok => thread'.call_stack.depth = thread.call_stack.depth + 1
            /\ ~last'.ok => thread' = thread
       /\ last'.op = "ret" =>
            /\ last'.ok <=> thread.call_stack.depth > 0
            /\ last'.ok => thread'.call_stack.depth = thread.call_stack.depth - 1
            /\ ~last'.ok => thread' = thread]_vars

C10_Witness ==
  /\ thread.context # None
  /\ thread.call_stack.depth = 8
  /\ last.op = "call" /\ ~last.ok
  /\ thread.context[1].pc = Calls[2].pc

\* C11: on a Parked thread with depth below 8, call(c) returns Some, sets pc
\* and sp to those of c and the bound l2_table to that of c, writes the
\* previous {pc, sp, l2_table} to the slot at the old depth, and changes no
\* other register, no lower slot and not exception_call; a ret taken right
\* after a successful call returns Some and puts back the pc, sp and l2_table
\* of the top slot (those from before the call) and the depth from before it.
C11_CallThenRet ==
  [][\A h \in {last'.hart} :
       /\ \A c \in CallCaps :
            (last'.op = "call" /\ thread.context # None
               /\ thread.call_stack.depth < 8 /\ call(h, c)) =>
              LET old == thread.context[1]
                  d == thread.call_stack.depth
              IN /\ last' = [op |-> "call", hart |-> h, ok |-> TRUE]
                 /\ thread'.context =
                      Some([old EXCEPT !.pc = Calls[c].pc, !.sp = Calls[c].sp])
                 /\ thread'.l2_table = Calls[c].l2_table
                 /\ thread'.call_stack.depth = d + 1
                 /\ thread'.call_stack.calls =
                      [thread.call_stack.calls EXCEPT
                         ![d] = [pc |-> old.pc, sp |-> old.sp,
                                 l2_table |-> thread.l2_table]]
                 /\ thread'.exception_call = thread.exception_call
       /\ (last'.op = "ret" /\ last.op = "call" /\ last.ok /\ ret(h)) =>
            LET now == thread.context[1]
                d == thread.call_stack.depth
                top == thread.call_stack.calls[d - 1]
            IN /\ last' = [op |-> "ret", hart |-> h, ok |-> TRUE]
               /\ thread'.context = Some([now EXCEPT !.pc = top.pc, !.sp = top.sp])
               /\ thread'.l2_table = top.l2_table
               /\ thread'.call_stack.depth = d - 1
               /\ \A i \in 0 .. (d - 2) :
                    thread'.call_stack.calls[i] = thread.call_stack.calls[i]
               /\ thread'.exception_call = thread.exception_call]_vars

C11_Witness ==
  /\ last.op = "call" /\ last.ok
  /\ thread.call_stack.depth = 2
  /\ thread.context # None /\ thread.context[1].pc = Calls[2].pc
  /\ thread.l2_table = Calls[2].l2_table
  /\ thread.call_stack.calls[1].pc = Calls[1].pc
  /\ thread.call_stack.calls[0].pc = USERMODE_BASE_ADDR

\* C12: when user mode was entered with a context and trapped having changed
\* only a0, the context the trap entry saves equals the entry context in every
\* slot but a0 (pc, sp and a7 among them), and it is the context resume
\* reinstalls.
C12_ResumeRoundTrip ==
  [][\A h \in Harts :
       /\ (kpc[h] = "user" /\ kpc'[h] = "trapped") =>
            \E v \in Words : local'[h] = Some([local[h][1] EXCEPT !.a[0] = v])
       /\ (kpc[h] = "reinstall" /\ kpc'[h] = "main") =>
            thread'.context = local[h]]_vars

\* C13: the value a successful resume returns carries, beside the token, the
\* scause and the stval of the trap that ended it.
C13_ResumeReturnsCause ==
  (last.op = "resume" /\ last.ok) =>
    /\ {"scause", "stval"} \subseteq DOMAIN last
    /\ last.scause = csr[last.hart].scause
    /\ last.stval = csr[last.hart].stval

\* ------------------------------------------------------- page-table claims

\* The physical page number of an entry: bits 10 to 53, as a number.
EntryPpn(entry) == Num({i - 10 : i \in {j \in entry : j >= 10 /\ j <= 53}})

\* C14: every L2 table L2TableCap::new returns has entries 0 to 255 invalid,
\* entries 256 to 510 equal to those of boot_l2_table(), and entry 511 valid,
\* without R, W or X, with the frame index of the kernel L1 table in the slot
\* as its physical page number.
C14_NewL2Table ==
  [][\A f \in L2Frames :
       (f \notin DOMAIN entries /\ f \in DOMAIN entries') =>
         /\ KERNEL_L1_TABLE # None
         /\ objects'[f] = "L2Table"
         /\ \A index \in 0 .. 255 : entries'[f][index] = {}
         /\ \A index \in 256 .. 510 : entries'[f][index] = boot_l2_table[index]
         /\ 0 \in entries'[f][511]
         /\ entries'[f][511] \cap {1, 2, 3} = {}
         /\ EntryPpn(entries'[f][511]) = KERNEL_L1_TABLE[1]]_vars

C14_Witness ==
  /\ KERNEL_L1_TABLE = Some(5)
  /\ 3 \in DOMAIN entries
  /\ objects[3] = "L2Table"
  /\ DOMAIN embedded = {<<3, 511>>}
  /\ EntryPpn(entries[3][511]) = 5
  /\ entries[3][256] = boot_l2_table[256]

\* C15: map_l1_table panics unless 0 < index < 256, and a call that panics
\* leaves the tables as they were; no step changes entry 0 or entries 256 to
\* 511 of an L2 table, so they stay as L2TableCap::new made them.
C15_KernelHalfKept ==
  [][/\ \A h \in Harts, l2 \in L2Frames, index \in L2Indices, l1 \in L1Frames :
          map_l1_table(h, l2, index, l1) =>
            IF 0 < index /\ index < 256
              THEN ~panicked' /\ embedded'[<<l2, index>>].frame = l1
              ELSE panicked' /\ entries' = entries /\ embedded' = embedded
                     /\ ptRefs' = ptRefs
     /\ \A f \in L2Frames :
          f \in DOMAIN entries =>
            /\ f \in DOMAIN entries'
            /\ entries'[f][0] = {}
            /\ \A index \in 256 .. 511 : entries'[f][index] = entries[f][index]]_vars

C15_Witness ==
  /\ panicked
  /\ 3 \in DOMAIN entries
  /\ <<3, 255>> \in DOMAIN embedded
  /\ entries[3][255] = Entry_interior(embedded[<<3, 255>>].frame)
  /\ entries[3][0] = {}
  /\ entries[3][511] = Entry_kernel_interior(KERNEL_L1_TABLE[1])

\* The tag of a capability entry: bits 2 to 9, as a number.
EntryTag(entry) == Num({i - 2 : i \in {j \in entry : j >= 2 /\ j <= 9}})

\* The frame index of a capability entry: bits 10 and up, as a number.
EntryFrame(entry) == Num({i - 10 : i \in {j \in entry : j >= 10}})

\* The entry of every pair of a kind and a frame.
AllCapEntries ==
  [kind \in CapKinds, frame \in PtFrames |-> Cap_l0_entry(kind, frame)]

\* The slots give_capability wrote last.
CapSlots == {slot \in DOMAIN embedded : embedded[slot].how = "cap"}

\* C16: the entry give_capability wrote for a capability of kind K on frame f
\* decodes to K's tag (0, 1, 2, 5, 6, 7) and to f, and is the entry of no other
\* pair of a kind and a frame.
C16_CapRoundTrip ==
  \A slot \in CapSlots :
    LET entry == entries[slot[1]][slot[2]]
        kind == embedded[slot].kind
        frame == embedded[slot].frame
    IN /\ EntryTag(entry) = (CASE kind = "L2Table" -> 0
                               [] kind = "L1Table" -> 1
                               [] kind = "L0Table" -> 2
                               [] kind = "L0Page" -> 5
                               [] kind = "Thread" -> 6
                               [] kind = "Call" -> 7)
       /\ EntryFrame(entry) = frame
       /\ \A other \in CapSlots :
            entries[other[1]][other[2]] = entry =>
              embedded[other].kind = kind /\ embedded[other].frame = frame
       /\ \A kind2 \in CapKinds, frame2 \in PtFrames :
            AllCapEntries[kind2, frame2] = entry => kind2 = kind /\ frame2 = frame

C16_Witness ==
  /\ CapSlots = {<<6, 0>>, <<6, 511>>}
  /\ embedded[<<6, 0>>].kind = "Call"
  /\ embedded[<<6, 511>>].kind = "L0Page"
  /\ embedded[<<6, 511>>].frame = Idx_MAX
  /\ EntryFrame(entries[6][511]) = Idx_MAX
  /\ EntryTag(entries[6][0]) = 7

\* The slots map_l0_page and map_l0_kernel_page wrote last.
LeafSlots == {slot \in DOMAIN embedded : embedded[slot].how \in {"leaf", "kernel_leaf"}}

\* The entry of every page and permission, as a user and as a kernel leaf.
AllLeafEntries ==
  {L0Entry_leaf(page, permissions) : page \in PageFrames, permissions \in Permissions}
    \cup {L0Entry_kernel_leaf(page, permissions) :
            page \in PageFrames, permissions \in Permissions}

\* C17: a capability entry has bit 0 clear and bit 1 set, whatever its tag and
\* frame index: it is not the invalid entry and not a leaf entry.
C17_CapNotMapping ==
  /\ \A slot \in CapSlots :
       LET entry == entries[slot[1]][slot[2]]
       IN /\ 0 \notin entry
          /\ 1 \in entry
          /\ entry # {}
          /\ entry \notin AllLeafEntries
          /\ \A leaf \in LeafSlots : entries[leaf[1]][leaf[2]] # entry
  /\ CapSlots # {} =>
       \A kind \in CapKinds, frame \in PtFrames :
         LET entry == AllCapEntries[kind, frame]
         IN 0 \notin entry /\ 1 \in entry /\ entry \notin AllLeafEntries

C17_Witness ==
  /\ <<6, 0>> \in CapSlots
  /\ embedded[<<6, 0>>].kind = "Thread"
  /\ <<6, 511>> \in LeafSlots
  /\ 0 \in entries[6][511]
  /\ 0 \notin entries[6][0]

\* The R, W and X bits (1, 2, 3) of a Permissions value.
RwxOf(permissions) ==
  CASE permissions = "ReadOnly" -> {1}
    [] permissions = "ReadWrite" -> {1, 2}
    [] permissions = "ExecuteOnly" -> {3}
    [] permissions = "ReadExecute" -> {1, 3}
    [] permissions = "ReadWriteExecute" -> {1, 2, 3}

\* C18: the entry map_l0_page wrote is valid, has the user bit (4) set, the
\* global bit (5) clear, the R, W and X bits of its permission and the page's
\* frame index as physical page number; the entry map_l0_kernel_page wrote is
\* the same with the user bit clear and the global bit set.
C18_LeafEntries ==
  \A slot \in LeafSlots :
    LET entry == entries[slot[1]][slot[2]]
        page == embedded[slot].frame
        permissions == embedded[slot].permissions
    IN /\ 0 \in entry
       /\ entry \cap {1, 2, 3} = RwxOf(permissions)
       /\ EntryPpn(entry) = page
       /\ entry \cap (54 .. 63) = {}
       /\ IF embedded[slot].how = "leaf"
            THEN /\ 4 \in entry /\ 5 \notin entry
                 /\ (entry \ {4}) \cup {5} = L0Entry_kernel_leaf(page, permissions)
            ELSE /\ 4 \notin entry /\ 5 \in entry
                 /\ (entry \ {5}) \cup {4} = L0Entry_leaf(page, permissions)

C18_Witness ==
  /\ LeafSlots = {<<6, 0>>, <<6, 511>>}
  /\ embedded[<<6, 0>>] = [how |-> "leaf", kind |-> "L0Page", frame |-> Idx_MAX,
                           permissions |-> "ExecuteOnly"]
  /\ embedded[<<6, 511>>] = [how |-> "kernel_leaf", kind |-> "L0Page", frame |-> 7,
                             permissions |-> "ReadWrite"]
  /\ entries[6][0] \cap {1, 2, 3, 4, 5} = {3, 4}
  /\ entries[6][511] \cap {1, 2, 3, 4, 5} = {1, 2, 5}

\* The handles of L2 table t the kernel holds outside satp: the thread's bound
\* table, the tables of the call gates and the tables saved on the call stack.
KernelHandles(t) ==
  (IF thread.l2_table = t THEN 1 ELSE 0)
    + Cardinality({c \in CallCaps : Calls[c].l2_table = t})
    + Cardinality({i \in 0 .. (MAX_DEPTH - 1) :
                     i < thread.call_stack.depth /\ thread.call_stack.calls[i].l2_table = t})

\* C19: the count of every L2 table is one, plus the handles the kernel holds,
\* plus one for each hart that has activated and has the table in satp: the
\* first activate of a hart reclaims nothing, a later one releases the handle
\* of the table it replaces, and no count grows with the number of resumes.
C19_SatpHoldsOne ==
  \A t \in Tables :
    tableRefs[t] =
      1 + KernelHandles(t) + Cardinality({h \in Harts : BOOTSTRAPPED[h] /\ satp[h] = t})

C19_Witness ==
  /\ BOOTSTRAPPED[0] /\ satp[0] = 1
  /\ \A h \in Harts \ {0} : ~BOOTSTRAPPED[h]
  /\ kpc[0] = "user"
  /\ local[0] # None /\ local[0][1].a[7] = Calls[1].sp
  /\ thread.call_stack.depth = 0
  /\ tableRefs[2] = 2
  /\ tableRefs[1] = 4

\* C20: every capability moved into an entry is released once, when the
\* entry is overwritten: the count of a frame is one, plus the caller's handle,
\* plus the handle in the kernel-L1 slot, plus one for each entry that holds a
\* capability on it now.
C20_EmbeddedReleased ==
  \A f \in PtFrames :
    ptRefs[f] =
      (IF objects[f] = "Free" THEN 0 ELSE 2)
        + (IF KERNEL_L1_TABLE = Some(f) THEN 1 ELSE 0)
        + Cardinality({slot \in DOMAIN embedded : embedded[slot].frame = f})

\* ------------------------------------------------------------ boot loop claims

C22_OtherTrapPanics ==
  [][/\ \A h \in BootHarts :
          (kpc[h] = "dispatch" /\ csr[h].scause # 8) =>
            /\ thread' = thread /\ local' = local /\ console' = console
            /\ kpc'[h] = "dispatch" /\ csr'[h] = csr[h]
            /\ last'.op = "dispatch" => panicked'
     /\ panicked => (thread' = thread /\ kpc' = kpc /\ local' = local)]_vars

C22_Witness ==
  /\ panicked
  /\ kpc[0] = "dispatch"
  /\ csr[0].scause = 13
  /\ thread.context # None
  /\ thread.context[1].pc = USERMODE_BASE_ADDR + 4
  /\ local[0] = None

\* The records of root's main: "Hello, w" and "orld!   ".
RootRecords ==
  <<[fmt |-> "str", data |-> <<72, 101, 108, 108, 111, 44, 32, 119>>],
    [fmt |-> "str", data |-> <<111, 114, 108, 100, 33, 32, 32, 32>>]>>

\* C23: under root's main the console holds "Hello, w", then "orld!   ", each
\* once and in that order; the shutdown request comes after both, and after it
\* no record is written and the thread is not resumed.
C23_HelloWorld ==
  /\ [](/\ Len(console) <= Len(RootRecords)
        /\ \A i \in 1 .. Len(console) : console[i] = RootRecords[i]
        /\ shutdown => console = RootRecords)
  /\ [][shutdown =>
          /\ console' = console /\ shutdown'
          /\ thread' = thread /\ local' = local
          /\ \A h \in BootHarts : kpc'[h] = kpc[h]]_vars

C23_Witness ==
  /\ shutdown
  /\ console = RootRecords
  /\ kpc[0] = "off"
  /\ thread.context # None
  /\ thread.context[1].a[0] = 0
  /\ thread.context[1].s[0] = NumChunks + 1

\* ------------------------------------------------------------ more token claims

\* C24: in a debug build a Token::acquire by the hart that holds the token
\* panics at its entry, before the loop; in every build a hart is given a
\* Token only while it holds none and the holder word is INVALID_HART_ID.
C24_ReacquireDetected ==
  [][\A h \in Harts :
       /\ (debug_assertions /\ TOKEN_HOLDER = h /\ acquire_enter(h)) =>
            /\ panicked'
            /\ kpc'[h] = kpc[h]
            /\ TOKEN_HOLDER' = h /\ tokens' = tokens
       /\ tokens'[h] > tokens[h] =>
            /\ tokens[h] = 0 /\ tokens'[h] = 1
            /\ TOKEN_HOLDER = -1 /\ TOKEN_HOLDER' = h]_vars

C24_Witness ==
  /\ ~debug_assertions
  /\ TOKEN_HOLDER = 1
  /\ tokens[1] = 1
  /\ kpc[1] = "acq_cas"

\* Hart h is inside the loop of Token::acquire.
InAcquire(h) == kpc[h] \in {"acq_load", "acq_cas", "acq_spin"}

\* Every hart that holds the token drops it again.
HoldersDrop == \A h \in Harts : []<>(tokens[h] = 0)

\* C25 as stated: if every holder drops the token again, every hart inside
\* Token::acquire eventually returns holding the token.
C25_EveryHartAcquires ==
  HoldersDrop => \A h \in Harts : (InAcquire(h) ~> tokens[h] > 0)

\* C25: if every holder drops the token again, then whenever the token is
\* free and some hart is inside Token::acquire, some hart eventually holds
\* the token; which hart is not determined.
C25_SomeHartAcquires ==
  HoldersDrop =>
    ((TOKEN_HOLDER = INVALID_HART_ID /\ \E h \in Harts : InAcquire(h))
       ~> (\E h \in Harts : tokens[h] > 0))

C25_Witness ==
  /\ console # <<>>
  /\ tokens[0] = 1 /\ kpc[0] = "dispatch"
  /\ \E h \in Harts \ BootHarts : InAcquire(h)

\* ------------------------------------------------------ boot allocator claims

\* The indices that were returned, as a set.
Returned == {allocated[i] : i \in 1 .. Len(allocated)}

\* C26: the indices alloc returned count down by one from the first
\* end_frame_number - 1; a successful alloc returns end_frame_number - 1, which
\* lies in [start_frame_number, end_frame_number) and was not returned before,
\* and takes one from len(); alloc on an allocator of len() = 0 panics; an alloc
\* that panics leaves the allocator as it was.
C26_BootAlloc ==
  /\ [](boot_alloc # None =>
          \A i \in 1 .. Len(allocated) :
            allocated[i] = boot_alloc[1].end_frame_number + Len(allocated) - i)
  /\ [][boot_alloc # None =>
          LET self == boot_alloc[1]
          IN /\ allocated' # allocated =>
                  LET idx == allocated'[Len(allocated')]
                  IN /\ allocated' = Append(allocated, idx)
                     /\ idx = self.end_frame_number - 1
                     /\ idx >= self.start_frame_number /\ idx < self.end_frame_number
                     /\ idx \notin Returned
                     /\ ~panicked'
                     /\ BootAlloc_len(boot_alloc'[1]) = BootAlloc_len(self) - 1
                     /\ boot_alloc'[1].start_frame_number = self.start_frame_number
             /\ BootAlloc_len(self) = 0 => panicked' /\ allocated' = allocated
             /\ panicked' => boot_alloc' = boot_alloc /\ allocated' = allocated]_vars

C26_Witness ==
  /\ panicked
  /\ Len(allocated) = 2
  /\ boot_alloc # None /\ BootAlloc_len(boot_alloc[1]) = 0

\* ------------------------------------------------------ more frame registry claims

\* The harts between the claiming compare-exchange and the final store of a
\* construction of f, or inside the destruction branch of a drop of f.
Building(f) ==
  {h \in Harts : arc[h].idx = f /\ arc[h].pc \in {"construct", "store", "destroy", "store0"}}

\* The first half of C27: at rest a frame with a handle counts 1 more than
\* its handles.
CountIsHandlesPlusOne ==
  \A f \in Frames :
    (handles[f] + raws[f] >= 1 /\ Quiet(f)) => REF_COUNTS[f] = 1 + handles[f] + raws[f]

\* C27: a frame with a live handle (forgotten ones counted) that is not being
\* constructed or destroyed has count 1 + its number of handles, and a count
\* of 1 is seen only while exactly one hart is constructing or destroying the
\* frame.
C27_CountTracksHandles ==
  /\ CountIsHandlesPlusOne
  /\ \A f \in Frames : REF_COUNTS[f] = 1 => Cardinality(Building(f)) = 1

\* The harts inside the destruction branch of a drop of f.
Destroying(f) ==
  {h \in Harts : arc[h].idx = f /\ arc[h].pc \in {"destroy", "store0"}}

C29_CasOnlyWhenFree ==
  [][\A h \in Harts :
       (kpc[h] = "acq_load" /\ kpc'[h] # "acq_load") =>
         /\ kpc'[h] = "acq_cas" => TOKEN_HOLDER = INVALID_HART_ID
         /\ TOKEN_HOLDER \in Harts => kpc'[h] = "acq_spin"]_vars

\* ------------------------------------------------------ more thread claims

\* C30: call_exception on a thread with handler c installed leaves the thread
\* and the table counts as call(c) would from the same state and returns what
\* it would; with no handler installed it returns none and leaves the context,
\* the call stack, the bound table and the handler slot as they were.
C30_CallExceptionIsCall ==
  [][last'.op = "call_exception" =>
       IF thread.exception_call = None
         THEN /\ ~last'.ok
              /\ thread' = thread
              /\ tableRefs' = tableRefs /\ capRefs' = capRefs
         ELSE LET r == call_result(thread, tableRefs, thread.exception_call[1])
              IN /\ last'.ok = r.ok
                 /\ thread' = r.thread
                 /\ thread'.exception_call = thread.exception_call
                 /\ tableRefs' = r.tableRefs /\ capRefs' = capRefs]_vars

C30_Witness ==
  /\ last.op = "call_exception" /\ last.ok
  /\ thread.exception_call # None
  /\ thread.call_stack.depth >= 1
  /\ thread.context # None
  /\ thread.context[1].pc = Calls[thread.exception_call[1]].pc
  /\ thread.l2_table = Calls[thread.exception_call[1]].l2_table

\* C31: set_exception_call(c), on a parked and on a running thread alike,
\* makes c the handler, gives back the reference of the handler it replaces,
\* and leaves the context, the call stack and the bound l2_table as they were.
C31_SetExceptionCall ==
  [][last'.op = "set_exception_call" =>
       \E c \in CallCaps :
         /\ thread'.exception_call = Some(c)
         /\ thread'.context = thread.context
         /\ thread'.call_stack = thread.call_stack
         /\ thread'.l2_table = thread.l2_table
         /\ tableRefs' = tableRefs
         /\ \A k \in CallCaps :
              capRefs'[k] = capRefs[k]
                            + (IF k = c THEN 1 ELSE 0)
                            - (IF thread.exception_call = Some(k) THEN 1 ELSE 0)]_vars

C31_Witness ==
  /\ last.op = "set_exception_call"
  /\ thread.context = None /\ kpc[0] = "user"
  /\ thread.exception_call = Some(2)
  /\ capRefs[2] = 3 /\ capRefs[1] = 2

\* C32: the thread ThreadCap::new(idx, context, l2_table) returns is parked
\* at the given context, bound to the given table, with depth 0 and no
\* handler; on it a resume takes the context and goes on, a ret returns none
\* and a call_exception returns none, both leaving the thread as it was.
C32_NewThread ==
  /\ thread.context = Some(BootContext)
  /\ thread.l2_table = 1
  /\ thread.call_stack.depth = 0
  /\ thread.exception_call = None
  /\ [][(thread.context # None /\ thread.call_stack = empty
            /\ thread.exception_call = None) =>
          /\ \A h \in Harts :
               resume_take(h) =>
                 /\ local'[h] = thread.context
                 /\ thread'.context = None
                 /\ kpc'[h] = "release"
          /\ last'.op \in {"ret", "call_exception"} =>
               ~last'.ok /\ thread' = thread /\ tableRefs' = tableRefs]_vars

C32_Witness ==
  /\ thread.context # None /\ thread.context[1].pc = BootContext.pc
  /\ thread.call_stack = empty /\ thread.exception_call = None
  /\ last.op = "call_exception" /\ ~last.ok
  /\ tokens[0] = 1 /\ kpc[0] = "main"

\* A Call that no CallCap and no context of the model holds.
ProbeCall == [pc |-> 4, sp |-> 4, l2_table |-> 2]

\* C33: the depth of a call stack stays within 0 .. 8 and the slots below it
\* hold calls; push returns none exactly at depth 8 and pop exactly at depth
\* 0 (a none changes nothing); push writes the slot at depth and no other,
\* and the pop after it returns the pushed call and the depth and the lower
\* slots from before; pop reads the slot at depth - 1, which holds a call.
C33_CallStack ==
  LET cs == thread.call_stack
      pushed == push(cs, ProbeCall)
      popped == pop(cs)
  IN /\ cs.depth \in 0 .. MAX_DEPTH
     /\ \A i \in 0 .. (MAX_DEPTH - 1) : i < cs.depth => cs.calls[i] # Uninit
     /\ pushed = None <=> cs.depth = MAX_DEPTH
     /\ popped = None <=> cs.depth = 0
     /\ pushed # None =>
          /\ pushed[1].depth = cs.depth + 1
          /\ \A i \in 0 .. (MAX_DEPTH - 1) :
               pushed[1].calls[i] = IF i = cs.depth THEN ProbeCall ELSE cs.calls[i]
          /\ pop(pushed[1])[1][1] = ProbeCall
          /\ pop(pushed[1])[1][2].depth = cs.depth
          /\ \A i \in 0 .. (MAX_DEPTH - 1) :
               i < cs.depth => pop(pushed[1])[1][2].calls[i] = cs.calls[i]
     /\ popped # None =>
          /\ popped[1][1] = cs.calls[cs.depth - 1]
          /\ popped[1][1] # Uninit
          /\ popped[1][2].depth = cs.depth - 1
          /\ \A i \in 0 .. (MAX_DEPTH - 1) :
               i < cs.depth - 1 => popped[1][2].calls[i] = cs.calls[i]

C33_Witness ==
  /\ last.op = "ret" /\ last.ok
  /\ thread.call_stack.depth = MAX_DEPTH - 1
  /\ thread.call_stack.calls[0] # thread.call_stack.calls[1]

\* C34: into_raw and from_raw change no count and no payload; into_raw
\* turns one handle into one forgotten index and from_raw one forgotten index
\* into one handle, so that from_raw after into_raw gives the state from
\* before and a drop then acts as the drop of the first handle.
C34_RawRoundTrip ==
  [][\A h \in Harts, f \in Frames :
       /\ into_raw(h, f) =>
            /\ REF_COUNTS' = REF_COUNTS /\ payload' = payload
            /\ destroyed' = destroyed
            /\ raws'[f] > 0
            /\ [handles' EXCEPT ![f] = @ + 1] = handles
            /\ [raws' EXCEPT ![f] = @ - 1] = raws
       /\ from_raw(h, f) =>
            /\ REF_COUNTS' = REF_COUNTS /\ payload' = payload
            /\ destroyed' = destroyed
            /\ handles'[f] > 0
            /\ [handles' EXCEPT ![f] = @ - 1] = handles
            /\ [raws' EXCEPT ![f] = @ + 1] = raws]_vars

C34_Witness ==
  \E f \in Frames :
    /\ raws[f] = 1 /\ handles[f] = 0
    /\ REF_COUNTS[f] = 2 /\ payload[f] = "init"

\* C35: every frame starts as Internal; a frame's kind changes only in a
\* mark_normal or mark_device step, which changes nothing else; and new_with
\* for a Normal-kind constructor on a frame that is Internal returns none.
C35_KindsOnlyMarked ==
  /\ \A f \in Frames : FRAME_KINDS[f] = "Internal"
  /\ [][/\ FRAME_KINDS' # FRAME_KINDS =>
             \E f \in Frames :
               /\ mark_normal(f) \/ mark_device(f)
               /\ \A g \in Frames \ {f} : FRAME_KINDS'[g] = FRAME_KINDS[g]
        /\ \A h \in Harts, f \in Frames, ctor \in Constructors :
             (new_with_frame(h, f, ctor) /\ ExpectedKind(ctor) = "Normal"
                /\ FRAME_KINDS[f] = "Internal") =>
               /\ arc'[h].pc = "idle" /\ arc'[h].res = "none"
               /\ REF_COUNTS' = REF_COUNTS /\ handles' = handles]_vars

C35_Witness ==
  \E h \in Harts, f \in Frames :
    /\ FRAME_KINDS[f] = "Internal"
    /\ arc[h].pc = "idle" /\ arc[h].idx = f
    /\ arc[h].res = "none" /\ arc[h].why = "kind"
    /\ REF_COUNTS[f] = 2 /\ handles[f] = 1 /\ payload[f] = "uninit"

\* ------------------------------------------------------ more page table claims

\* Entry e is a valid, global, non-user leaf with exactly the bits rwx of
\* R (1), W (2), X (3), whose bits 10 to 53 hold l2_frame_number * 2^18 and
\* whose bits above 53 are clear.
IsHugeLeaf(e, l2_frame_number, rwx) ==
  /\ 0 \in e /\ 5 \in e /\ 4 \notin e
  /\ e \cap {1, 2, 3} = rwx
  /\ \A i \in e : i <= 53
  /\ Cardinality({i \in e : i >= 10}) = Cardinality(Bits(l2_frame_number))
  /\ EntryPpn(e) = l2_frame_number * 262144

\* The kernel half of boot_l2_table(), entry by entry.
BootKernelHalf ==
  /\ \A index \in 256 .. 510 : IsHugeLeaf(boot_l2_table[index], index - 256, {1, 2})
  /\ IsHugeLeaf(boot_l2_table[511], 2, {1, 2, 3})

\* The user half of boot_l2_table().
BootUserHalf == \A index \in 0 .. 255 : boot_l2_table[index] = {}

\* C36: in boot_l2_table() entries 0 to 255 are zero, entry i of 256 to 510
\* is a valid, global, non-user leaf with R and W and without X whose
\* physical page number is (i - 256) * 2^18, and entry 511 likewise with R, W
\* and X and physical page number 2 * 2^18; every set bit of the frame number
\* is in the entry. The L2 tables built from it carry the same entries.
C36_BootL2Table ==
  /\ BootUserHalf
  /\ BootKernelHalf
  /\ \A f \in L2Frames :
       f \in DOMAIN entries =>
         /\ IsHugeLeaf(entries[f][256], 0, {1, 2})
         /\ IsHugeLeaf(entries[f][510], 254, {1, 2})

C36_Witness ==
  /\ 3 \in DOMAIN entries
  /\ entries[3][510] = boot_l2_table[510]
  /\ EntryPpn(entries[3][510]) = 254 * 262144
  /\ entries[3][511] # boot_l2_table[511]

\* C37: an L2TableCap::new that returns none, its frame being taken, leaves
\* the count of every frame, that of the kernel L1 table included, as it was.
C37_FailedNewBalanced ==
  [][\A h \in Harts, f \in L2Frames :
       (L2TableCap_new(h, f) /\ KERNEL_L1_TABLE # None /\ ~ArcNewOk(f))
         => ptRefs' = ptRefs]_vars

\* C38: a call that returns none (the thread running, or the call stack
\* full) changes no table count; a call that returns Some adds one to the
\* count of the table it binds and nothing to the table bound before; a ret
\* that returns Some takes one from the table bound before it, and a ret that
\* returns none changes no count.
C38_TableRefsBalanced ==
  [][/\ last'.op = "call" =>
          IF last'.ok
            THEN tableRefs' = [tableRefs EXCEPT ![thread'.l2_table] = @ + 1]
            ELSE /\ tableRefs' = tableRefs
                 /\ thread.context = None \/ thread.call_stack.depth = MAX_DEPTH
     /\ last'.op = "ret" =>
          IF last'.ok
            THEN tableRefs' = [tableRefs EXCEPT ![thread.l2_table] = @ - 1]
            ELSE tableRefs' = tableRefs]_vars

C38_Witness ==
  /\ last.op = "ret" /\ last.ok
  /\ thread.call_stack.depth = 0
  /\ thread.l2_table = 1
  /\ tableRefs[1] = 3 /\ tableRefs[2] = 2

\* The R, W and X bits of an entry.
Rwx(e) == e \cap {1, 2, 3}

\* Every Permissions value encodes to R, W, X bits that are not all clear,
\* with W only beside R.
PermissionsEncode ==
  \A permissions \in Permissions :
    LET bits == Permissions_bits(permissions)
    IN bits # {} /\ bits \subseteq {1, 2, 3} /\ (2 \in bits => 1 \in bits)

\* Every leaf constructor gives a valid entry with one of R, W, X, and every
\* interior constructor a valid entry with none of them.
ConstructorsEncode ==
  /\ \A frame \in PtFrames, permissions \in Permissions :
       /\ 0 \in L0Entry_leaf(frame, permissions)
       /\ Rwx(L0Entry_leaf(frame, permissions)) # {}
       /\ 0 \in L0Entry_kernel_leaf(frame, permissions)
       /\ Rwx(L0Entry_kernel_leaf(frame, permissions)) # {}
  /\ \A l2_frame_number \in {0, 2, 254}, permissions \in Permissions :
       /\ 0 \in L2Entry_kernel(l2_frame_number, permissions)
       /\ Rwx(L2Entry_kernel(l2_frame_number, permissions)) # {}
  /\ \A frame \in PtFrames :
       /\ 0 \in Entry_interior(frame) /\ Rwx(Entry_interior(frame)) = {}
       /\ 0 \in Entry_kernel_interior(frame) /\ Rwx(Entry_kernel_interior(frame)) = {}

\* C39: the bits of every Permissions value are not all clear and have W
\* only with R, so every leaf entry has one of R, W, X and every interior
\* entry none; in the tables, the entries written as pointers to a table
\* have R, W and X clear and the huge pages of an L2 table have some set.
C39_LeafNeverInterior ==
  /\ PermissionsEncode
  /\ ConstructorsEncode
  /\ \A slot \in DOMAIN embedded :
       embedded[slot].how \in {"interior", "kernel_interior"} =>
         /\ 0 \in entries[slot[1]][slot[2]]
         /\ Rwx(entries[slot[1]][slot[2]]) = {}
  /\ \A f \in L2Frames :
       f \in DOMAIN entries => Rwx(entries[f][256]) # {} /\ Rwx(entries[f][510]) # {}

C39_Witness ==
  /\ 3 \in DOMAIN entries
  /\ <<3, 1>> \in DOMAIN embedded
  /\ embedded[<<3, 1>>].how = "interior"
  /\ Rwx(entries[3][1]) = {} /\ 0 \in entries[3][1]
  /\ Rwx(entries[3][256]) = {1, 2}

====
